---- MODULE Spec2Model ----
(***************************************************************************)
(* Verification model of cellmap-utils-kit.                                *)
(*                                                                         *)
(*   - the pyramid metadata model (attribute_handler.py)                   *)
(*   - the encoding pre-check and the smooth pyramid jobs (multiscale.py)  *)
(*   - the batch entry points and their dispatch loops                     *)
(*                                                                         *)
(* Numbers.  Scales are whole nanometres.  Translations are kept in half   *)
(* nanometres (the code adds scale * 0.5), so a translation of 2.0 nm is   *)
(* the integer 4.  A voxel of an array is an integer numerator over the    *)
(* array's denominator `den` (1 for s0, 8 per block-mean step), which      *)
(* keeps the block means exact.                                            *)
(***************************************************************************)
EXTENDS Integers, Sequences, FiniteSets, TLC

VARIABLES
    attrs_as_dict,   \* metadata model: the document under construction
    lastcall,        \* metadata model: the arguments of the last call
    encoding,        \* check_encoding: the encoding under test
    outcome,         \* check_encoding: "none" | "ok" | "ValueError"
    arrays,          \* crop store: group -> level -> array (or NoArray)
    lvlattrs,        \* crop store: group -> level -> array attributes (or NoAttrs)
    grpattrs,        \* crop store: group -> the group's pyramid metadata document
    job,             \* the pyramid job running on the crop, and its position
    runs,            \* pyramid jobs started on the crop so far
    snap,            \* the crop store as the first completed job left it
    entry,           \* batch run: the entry point called
    manifest,        \* batch run: crops listed per dataset, in manifest order
    max_concurrency, \* batch run: the concurrency bound, 0 for None
    fails,           \* batch run: crop -> what processing that crop does
    dsfault,         \* batch run: datasets whose raw or crop_group path is missing
    main,            \* batch run: the position of the entry point's own loop
    task_list,       \* batch run: the awaitables collected for the next gather
    jobs,            \* batch run: background job -> its status
    jobpos,          \* batch run: dataset job -> index of the crop it handles next
    started,         \* batch run: crops whose processing has begun
    files,           \* filter: manifest path -> the manifest stored there
    crop_store,      \* filter: crop path -> the crop stored there
    fargs,           \* filter: the arguments of the call
    fmain,           \* filter: the position of filter_yaml_main and its locals
    fresult,         \* filter: what the call of filter_crop gave
    h5groups,        \* reader: the groups above the array, the root first
    rd,              \* reader: the position of read_multiscale_array
    readers,         \* any reader: what each backend's reader does with the path
    ra,              \* any reader: the position of read_any_xarray
    zf,              \* export: the source crop, node path -> node
    h5f,             \* export: the HDF5 file written, node path -> node
    xp,              \* export: the position of _export_crop
    araw             \* add-raw: the position of _add_raw and what it has done

metaVars == <<attrs_as_dict, lastcall>>
encVars == <<encoding, outcome>>
pyrVars == <<arrays, lvlattrs, grpattrs, job, runs, snap>>
batchVars == <<entry, manifest, max_concurrency, fails, dsfault, main, task_list,
               jobs, jobpos, started>>
filtVars == <<files, crop_store, fargs, fmain, fresult>>
readVars == <<h5groups, rd>>
anyVars == <<readers, ra>>
exportVars == <<zf, h5f, xp>>
toolVars == <<readers, ra, zf, h5f, xp, araw>>
vars == <<attrs_as_dict, lastcall, encoding, outcome,
          arrays, lvlattrs, grpattrs, job, runs, snap,
          entry, manifest, max_concurrency, fails, dsfault, main, task_list,
          jobs, jobpos, started,
          files, crop_store, fargs, fmain, fresult, h5groups, rd,
          readers, ra, zf, h5f, xp, araw>>

----------------------------------------------------------------------------
(* Bounds *)

MaxLevels == 3      \* level records in a document of the metadata model
MaxScale == 2       \* scale components 1..MaxScale
MaxTrans == 1       \* translation components 0..MaxTrans (half nanometres)
MinCode == -1       \* smallest voxel code of an encoding
MaxCode == 2        \* largest present/absent code of an encoding
MaxUnknown == 17    \* largest unknown code (next to the documented 100)

LevelNames == {"s0", "s1", "s2"}
ScaleVecs == {<<a, b, b>> : a \in 1..MaxScale, b \in 1..MaxScale}
TransVecs == {<<t, t, 0>> : t \in 0..MaxTrans}

----------------------------------------------------------------------------
(* Pyramid metadata model: attribute_handler.py *)

\* The record add_scalelevel_to_attributes appends.
LevelRecord(scalelvl, scale, translation) ==
    [coordinateTransformations |->
        << [type |-> "scale", scale |-> scale],
           [type |-> "translation", translation |-> translation] >>,
     path |-> scalelvl]

initialize_multiscale_attributes ==
    [axes |-> <<"z", "y", "x">>,
     coordinateTransformations |-> << [scale |-> <<1, 1, 1>>, type |-> "scale"] >>,
     datasets |-> << >>]

add_scalelevel_to_attributes_front(doc, scalelvl, scale, translation) ==
    [doc EXCEPT !.datasets = <<LevelRecord(scalelvl, scale, translation)>> \o @]

add_scalelevel_to_attributes(doc, scalelvl, scale, translation) ==
    [doc EXCEPT !.datasets = Append(@, LevelRecord(scalelvl, scale, translation))]

\* Index of the first level whose path is scalelvl, 0 when there is none.
RECURSIVE FirstIndexFrom(_, _, _)
FirstIndexFrom(datasets, scalelvl, i) ==
    IF i > Len(datasets) THEN 0
    ELSE IF datasets[i].path = scalelvl THEN i
    ELSE FirstIndexFrom(datasets, scalelvl, i + 1)

FirstIndex(datasets, scalelvl) == FirstIndexFrom(datasets, scalelvl, 1)

\* None
NoValue == << >>

\* The inner loop of get_scale_and_translation over one level's transforms:
\* acc is [scale, translation, bad]; a later transform of a type overwrites
\* an earlier one, any other type raises at once.
RECURSIVE ScanTransforms(_, _, _)
ScanTransforms(cts, i, acc) ==
    IF i > Len(cts) THEN acc
    ELSE IF cts[i].type = "scale"
         THEN ScanTransforms(cts, i + 1, [acc EXCEPT !.scale = cts[i].scale])
    ELSE IF cts[i].type = "translation"
         THEN ScanTransforms(cts, i + 1,
                             [acc EXCEPT !.translation = cts[i].translation])
    ELSE [acc EXCEPT !.bad = TRUE]

get_scale_and_translation_last(doc, scalelvl) ==
    LET hits == {i \in 1..Len(doc.datasets) : doc.datasets[i].path = scalelvl}
        idx == IF hits = {} THEN 0 ELSE CHOOSE i \in hits : \A j \in hits : j <= i
    IN  IF idx = 0 THEN [status |-> "ValueError", why |-> "level not found"]
        ELSE LET acc == ScanTransforms(doc.datasets[idx].coordinateTransformations, 1,
                          [scale |-> NoValue, translation |-> NoValue, bad |-> FALSE])
             IN  [status |-> "ok", scale |-> acc.scale, translation |-> acc.translation]

get_scale_and_translation_scale_only(doc, scalelvl) ==
    LET idx == FirstIndex(doc.datasets, scalelvl)
    IN  IF idx = 0 THEN [status |-> "ValueError", why |-> "level not found"]
        ELSE LET acc == ScanTransforms(doc.datasets[idx].coordinateTransformations, 1,
                          [scale |-> NoValue, translation |-> NoValue, bad |-> FALSE])
             IN  IF acc.bad
                 THEN [status |-> "ValueError", why |-> "unknown transform type"]
                 ELSE IF acc.scale = NoValue
                 THEN [status |-> "ValueError", why |-> "missing transform"]
                 ELSE [status |-> "ok", scale |-> acc.scale,
                       translation |-> acc.translation]

get_scale_and_translation(doc, scalelvl) ==
    LET idx == FirstIndex(doc.datasets, scalelvl)
    IN  IF idx = 0 THEN [status |-> "ValueError", why |-> "level not found"]
        ELSE LET acc == ScanTransforms(doc.datasets[idx].coordinateTransformations, 1,
                          [scale |-> NoValue, translation |-> NoValue, bad |-> FALSE])
             IN  IF acc.bad
                 THEN [status |-> "ValueError", why |-> "unknown transform type"]
                 ELSE IF acc.translation = NoValue \/ acc.scale = NoValue
                 THEN [status |-> "ValueError", why |-> "missing transform"]
                 ELSE [status |-> "ok", scale |-> acc.scale,
                       translation |-> acc.translation]

\* Level paths are pairwise distinct within the document.
UniquePaths(doc) ==
    \A i, j \in 1..Len(doc.datasets) :
        doc.datasets[i].path = doc.datasets[j].path => i = j

NoCall == [op |-> "none"]

\* One call add_scalelevel_to_attributes(attrs_as_dict, scalelvl, scale, translation).
AddScalelevel ==
    \E scalelvl \in LevelNames, scale \in ScaleVecs, translation \in TransVecs :
        /\ Len(attrs_as_dict.datasets) < MaxLevels
        /\ attrs_as_dict' =
              add_scalelevel_to_attributes(attrs_as_dict, scalelvl, scale, translation)
        /\ lastcall' = [op |-> "add", scalelvl |-> scalelvl, scale |-> scale,
                        translation |-> translation,
                        fresh |-> FirstIndex(attrs_as_dict.datasets, scalelvl) = 0,
                        before |-> get_scale_and_translation(attrs_as_dict, scalelvl)]

\* A fresh document: initialize_multiscale_attributes() again.
Initialize ==
    /\ attrs_as_dict.datasets # << >>
    /\ attrs_as_dict' = initialize_multiscale_attributes
    /\ lastcall' = NoCall

NextMeta ==
    \/ AddScalelevel /\ UNCHANGED <<encVars, pyrVars, batchVars, filtVars, readVars, toolVars>>
    \/ Initialize /\ UNCHANGED <<encVars, pyrVars, batchVars, filtVars, readVars, toolVars>>

----------------------------------------------------------------------------
(* Pyramid metadata lookups on arbitrary documents: attribute_handler.py *)

MaxLookupLevels == 3   \* level records in a document handed to a lookup

LookupNames == {"s0", "s1"}
\* Names asked for or renamed to: the listed ones and one that is never listed.
AskedNames == LookupNames \cup {"raw"}
LookupScales == {<<1, 1, 1>>, <<2, 2, 2>>}
\* Scales asked for: the listed ones and one that no level has.
AskedScales == LookupScales \cup {<<4, 4, 4>>}

ScaleCt(scale) == [type |-> "scale", scale |-> scale]
TranslationCt(translation) == [type |-> "translation", translation |-> translation]
AffineCt == [type |-> "affine", affine |-> <<1, 0, 0>>]

\* The coordinateTransformations a level of a document on disk may carry:
\* well-formed in either order, a second scale, one of the two missing, a
\* transform of another type, none at all.
TransformLists ==
    {<<ScaleCt(sc), TranslationCt(<<0, 0, 0>>)>> : sc \in LookupScales}
    \cup {<<TranslationCt(<<1, 1, 1>>), ScaleCt(<<1, 1, 1>>)>>,
          <<ScaleCt(<<1, 1, 1>>), ScaleCt(<<2, 2, 2>>), TranslationCt(<<0, 0, 0>>)>>,
          <<ScaleCt(<<2, 2, 2>>)>>,
          <<TranslationCt(<<0, 0, 0>>)>>,
          <<ScaleCt(<<1, 1, 1>>), AffineCt, TranslationCt(<<0, 0, 0>>)>>,
          << >>}

LookupLevels ==
    {[coordinateTransformations |-> cts, path |-> p] :
        cts \in TransformLists, p \in LookupNames}

LookupDocs ==
    {[initialize_multiscale_attributes EXCEPT !.datasets = ds] :
        ds \in UNION {[1..n -> LookupLevels] : n \in 0..MaxLookupLevels}}

\* The scale of the first transform of type "scale" from position i on, None
\* when there is none: the inner loop of get_res_dict_from_attrs with its break.
RECURSIVE FirstScaleFrom(_, _)
FirstScaleFrom(cts, i) ==
    IF i > Len(cts) THEN NoValue
    ELSE IF cts[i].type = "scale" THEN cts[i].scale
    ELSE FirstScaleFrom(cts, i + 1)

\* result[key] = value on a dict kept as a sequence of <<key, value>> in
\* insertion order: an existing key keeps its position and takes the value.
DictSet(result, key, value) ==
    IF \E n \in 1..Len(result) : result[n][1] = key
    THEN [n \in 1..Len(result) |->
             IF result[n][1] = key THEN <<key, value>> ELSE result[n]]
    ELSE Append(result, <<key, value>>)

RECURSIVE ResDictFrom(_, _, _)
ResDictFrom(datasets, i, result) ==
    IF i > Len(datasets) THEN result
    ELSE LET scale == FirstScaleFrom(datasets[i].coordinateTransformations, 1)
         IN  ResDictFrom(datasets, i + 1,
                 IF scale = NoValue THEN result
                 ELSE DictSet(result, datasets[i].path, scale))

get_res_dict_from_attrs(doc) == ResDictFrom(doc.datasets, 1, << >>)

\* Position of the first item of the dict whose value is request_scale, 0
\* when there is none.
RECURSIVE FirstKeyWithValue(_, _, _)
FirstKeyWithValue(scales, request_scale, n) ==
    IF n > Len(scales) THEN 0
    ELSE IF scales[n][2] = request_scale THEN n
    ELSE FirstKeyWithValue(scales, request_scale, n + 1)

get_scalelevel(doc, request_scale) ==
    LET scales == get_res_dict_from_attrs(doc)
        n == FirstKeyWithValue(scales, request_scale, 1)
    IN  IF n = 0
        THEN [status |-> "ValueError", why |-> "scale not found"]
        ELSE [status |-> "ok", path |-> scales[n][1]]

extract_single_scale_attrs_keep_path(doc, scalelvl, rename) ==
    LET idx == FirstIndex(doc.datasets, scalelvl)
    IN  IF idx = 0
        THEN [status |-> "ValueError", why |-> "level not found", doc |-> doc]
        ELSE [status |-> "ok",
              doc |-> [doc EXCEPT !.datasets = <<doc.datasets[idx]>>]]

\* extract_single_scale_attrs works on attrs_as_dict in place and returns it:
\* `doc` of the result is attrs_as_dict after the call, raised or not.
extract_single_scale_attrs(doc, scalelvl, rename) ==
    LET idx == FirstIndex(doc.datasets, scalelvl)
    IN  IF idx = 0
        THEN [status |-> "ValueError", why |-> "level not found", doc |-> doc]
        ELSE [status |-> "ok",
              doc |-> [doc EXCEPT !.datasets =
                          <<[doc.datasets[idx] EXCEPT !.path = rename]>>]]

\* One call get_scalelevel(group, request_scale) on a group whose attributes
\* hold attrs_as_dict.
GetScalelevel ==
    \E request_scale \in AskedScales :
        /\ lastcall.op = "none"
        /\ lastcall' = [op |-> "get_scalelevel", request_scale |-> request_scale,
                        result |-> get_scalelevel(attrs_as_dict, request_scale)]
        /\ UNCHANGED attrs_as_dict

\* One call get_scale_and_translation(attrs_as_dict, scalelvl).
GetScaleAndTranslation ==
    \E scalelvl \in AskedNames :
        /\ lastcall.op = "none"
        /\ lastcall' = [op |-> "get_scale_and_translation", scalelvl |-> scalelvl,
                        result |-> get_scale_and_translation(attrs_as_dict, scalelvl)]
        /\ UNCHANGED attrs_as_dict

\* One call extract_single_scale_attrs(attrs_as_dict, scalelvl, rename).
ExtractSingleScale ==
    \E scalelvl \in AskedNames, rename \in AskedNames :
        /\ lastcall.op = "none"
        /\ LET r == extract_single_scale_attrs(attrs_as_dict, scalelvl, rename)
           IN  /\ attrs_as_dict' = r.doc
               /\ lastcall' = [op |-> "extract_single_scale_attrs",
                               scalelvl |-> scalelvl, rename |-> rename,
                               status |-> r.status, before |-> attrs_as_dict]

NextLookup ==
    \/ GetScalelevel /\ UNCHANGED <<encVars, pyrVars, batchVars, filtVars, readVars, toolVars>>
    \/ GetScaleAndTranslation /\ UNCHANGED <<encVars, pyrVars, batchVars, filtVars, readVars, toolVars>>
    \/ ExtractSingleScale /\ UNCHANGED <<encVars, pyrVars, batchVars, filtVars, readVars, toolVars>>

----------------------------------------------------------------------------
(* Encoding pre-check: multiscale.py *)

Max(a, b) == IF a >= b THEN a ELSE b

Encodings ==
    [present : MinCode..MaxCode, absent : MinCode..MaxCode,
     unknown : (MinCode..MaxUnknown) \cup {100}]

check_encoding_strict(enc) ==
    IF enc.unknown < 8 * Max(enc.present, enc.absent) THEN "ValueError" ELSE "ok"

check_encoding(enc) ==
    IF enc.unknown <= 8 * Max(enc.present, enc.absent) THEN "ValueError" ELSE "ok"

DocumentedEncoding == [present |-> 1, absent |-> 0, unknown |-> 100]

\* One call check_encoding(encoding).
CheckEncoding ==
    /\ outcome = "none"
    /\ outcome' = check_encoding(encoding)
    /\ UNCHANGED encoding

NextEncoding ==
    CheckEncoding /\ UNCHANGED <<metaVars, pyrVars, batchVars, filtVars, readVars, toolVars>>

----------------------------------------------------------------------------
(* Crop store and block-mean coarsening: multiscale.py *)

MaxAxis == 7        \* axis lengths of an s0 array are 1..MaxAxis
ShapeSkew == 1      \* the leading axis differs from the others by at most this
MaxScales == 3      \* num_scales of a pyramid job is 1..MaxScales
MaxRuns == 2        \* pyramid jobs run on one crop, one after the other

class_names == <<"mito", "er">>
Classes == {class_names[i] : i \in 1..Len(class_names)}
Groups == Classes \cup {"raw"}

LevelSeq == <<"s0", "s1", "s2", "s3", "s4">>
\* f"s{k}"
Lvl(k) == LevelSeq[k + 1]
PyrLevels == {Lvl(k) : k \in 0..(MaxScales - 1)}

NoArray == [missing |-> "array"]
NoAttrs == [missing |-> "attrs"]
NoStore == "no crop"
NoSnap == [missing |-> "snapshot"]

Shapes ==
    {<<ab[1], ab[2], ab[2]>> :
        ab \in {p \in (1..MaxAxis) \X (1..MaxAxis) :
                    p[1] - p[2] <= ShapeSkew /\ p[2] - p[1] <= ShapeSkew}}

\* Index tuples of an array of the given shape.
Coords(shape) ==
    {<<z, y, x>> : z \in 0..(shape[1] - 1), y \in 0..(shape[2] - 1),
                   x \in 0..(shape[3] - 1)}

\* src padded with cval = 0 past its end, as downscale_local_mean pads it.
Padded(src, p) == IF p \in DOMAIN src.data THEN src.data[p] ELSE 0

\* The sum over the 2x2x2 block of src that output index c covers.
BlockSum(src, c) ==
    LET z == 2 * c[1]
        y == 2 * c[2]
        x == 2 * c[3]
    IN  Padded(src, <<z, y, x>>) + Padded(src, <<z, y, x + 1>>)
        + Padded(src, <<z, y + 1, x>>) + Padded(src, <<z, y + 1, x + 1>>)
        + Padded(src, <<z + 1, y, x>>) + Padded(src, <<z + 1, y, x + 1>>)
        + Padded(src, <<z + 1, y + 1, x>>) + Padded(src, <<z + 1, y + 1, x + 1>>)

\* The source indices of the block of output index c that lie inside src.
Block(src, c) ==
    {p \in {<<2 * c[1] + dz, 2 * c[2] + dy, 2 * c[3] + dx>> :
                dz \in 0..1, dy \in 0..1, dx \in 0..1} : p \in DOMAIN src.data}

\* skimage.transform.downscale_local_mean(src[:], 2): ceil(n / 2) blocks per
\* axis, each the mean of its 8 (zero-padded) voxels: numerator BlockSum over
\* the denominator 8 * src.den.
downscale_local_mean(src) ==
    LET shape == <<(src.shape[1] + 1) \div 2, (src.shape[2] + 1) \div 2,
                   (src.shape[3] + 1) \div 2>>
    IN  [shape |-> shape, den |-> 8 * src.den,
         data |-> [c \in Coords(shape) |-> BlockSum(src, c)]]

\* The block means left as they are, odd axes included.
downslice_no_trim(down) == down

\* down[tuple(slice(sh) for sh in (np.array(down.shape) // 2) * 2)]
downslice(down) ==
    LET shape == <<(down.shape[1] \div 2) * 2, (down.shape[2] \div 2) * 2,
                   (down.shape[3] \div 2) * 2>>
    IN  [down EXCEPT !.shape = shape,
                     !.data = [c \in Coords(shape) |-> down.data[c]]]

\* down[down > max(present, absent)] = unknown
Quantize(down, enc) ==
    [down EXCEPT !.data =
        [c \in DOMAIN down.data |->
            IF down.data[c] > Max(enc.present, enc.absent) * down.den
            THEN enc.unknown * down.den
            ELSE down.data[c]]]

\* Voxels of arr equal to the unknown code.
UnknownVoxels(arr, enc) ==
    {c \in DOMAIN arr.data : arr.data[c] = enc.unknown * arr.den}

RECURSIVE SumOver(_, _)
SumOver(f, S) ==
    IF S = {} THEN 0
    ELSE LET c == CHOOSE c \in S : TRUE IN f[c] + SumOver(f, S \ {c})

\* round(num / den, 2) in hundredths, ties to even.
RoundHundredths(num, den) ==
    LET q == (100 * num) \div den
        r == 100 * num - q * den
    IN  IF 2 * r > den THEN q + 1
        ELSE IF 2 * r < den THEN q
        ELSE IF q % 2 = 0 THEN q ELSE q + 1

\* The complement_counts written for a derived label level: absent is
\* round(sum(present - v), 2) over the voxels v that are not unknown (kept in
\* hundredths), unknown is the number of voxels equal to unknown.
ComplementCounts(down, enc) ==
    LET known == DOMAIN down.data \ UnknownVoxels(down, enc)
    IN  [absent |-> RoundHundredths(
                        enc.present * down.den * Cardinality(known)
                            - SumOver(down.data, known), down.den),
         unknown |-> Cardinality(UnknownVoxels(down, enc))]

l2_translation_no_offset(l1_scale, l1_translation) == l1_translation

l2_scale_same(l1_scale) == l1_scale

\* [sc * 2 for sc in l1_scale]
l2_scale(l1_scale) == [i \in 1..3 |-> l1_scale[i] * 2]

\* [(sc * 0.5) + tr for sc, tr in zip(l1_scale, l1_translation)], in half
\* nanometres: sc nm * 0.5 is sc half nanometres.
l2_translation(l1_scale, l1_translation) ==
    [i \in 1..3 |-> l1_scale[i] + l1_translation[i]]

----------------------------------------------------------------------------
(* Pyramid jobs on one crop: multiscale.py *)

SafeEncoding == [present |-> 1, absent |-> 0, unknown |-> 9]
PyramidEncodings ==
    {SafeEncoding,
     [present |-> 1, absent |-> 0, unknown |-> 8],
     [present |-> 0, absent |-> -1, unknown |-> 1]}

\* Where the unknown voxel of a label volume sits.
Patterns == {"none", "first", "last"}

\* What is wrong with the crop, if anything.
NoFault == [kind |-> "none", group |-> "none"]
Faults ==
    {NoFault}
    \cup {[kind |-> "not_semantic", group |-> g] : g \in Classes}
    \cup {[kind |-> k, group |-> g] : k \in {"no_s0", "no_transform"}, g \in Groups}

\* Scale (nm) and translation (half nm) of s0.
S0Transforms ==
    {[scale |-> <<4, 4, 4>>, translation |-> <<4, 4, 4>>],
     [scale |-> <<1, 2, 2>>, translation |-> <<0, 1, 1>>]}

\* An annotated s0 volume: present and absent voxels alternate, with at most
\* one unknown voxel in the first or the last corner.
LabelVolume(shape, pat, enc) ==
    [shape |-> shape, den |-> 1,
     data |-> [c \in Coords(shape) |->
        IF pat = "first" /\ c = <<0, 0, 0>> THEN enc.unknown
        ELSE IF pat = "last" /\ c = <<shape[1] - 1, shape[2] - 1, shape[3] - 1>>
             THEN enc.unknown
        ELSE IF (c[1] + c[2] + c[3]) % 2 = 0 THEN enc.present
        ELSE enc.absent]]

\* A raw intensity volume.
RawVolume(shape) ==
    [shape |-> shape, den |-> 1,
     data |-> [c \in Coords(shape) |-> (c[1] + 2 * c[2] + 3 * c[3]) % 4]]

\* The attributes of an annotated s0 array (cellmap.annotation).
LabelAttrs(vol, enc, type) ==
    [type |-> type, encoding |-> enc,
     complement_counts |->
        [absent |-> 100 * Cardinality({c \in DOMAIN vol.data :
                                          vol.data[c] = enc.absent}),
         unknown |-> Cardinality(UnknownVoxels(vol, enc))]]

NoStep == << >>
IdleJob == [kind |-> "none", num_scales |-> 0, li |-> 0, k |-> 0, status |-> "idle",
            error |-> "none", visited |-> {}, last |-> NoStep]

Store == [arrays |-> arrays, lvlattrs |-> lvlattrs, grpattrs |-> grpattrs]

\* A step that raised before or after writing: what it leaves in the store.
Raised(error, st) ==
    [status |-> "raised", error |-> error, arrays |-> st.arrays,
     lvlattrs |-> st.lvlattrs, grpattrs |-> st.grpattrs]

\* Lines 144-154 and 176-184: resolve l1, derive l2's transform, append it.
AppendDerivedLevel(st, group, l1, l2) ==
    LET res == get_scale_and_translation(st.grpattrs[group], l1)
    IN  IF res.status # "ok" THEN Raised("ValueError", st)
        ELSE [status |-> "ok", error |-> "none", arrays |-> st.arrays,
              lvlattrs |-> st.lvlattrs,
              grpattrs |-> [st.grpattrs EXCEPT ![group] =
                  add_scalelevel_to_attributes(@, l2, l2_scale(res.scale),
                      l2_translation(res.scale, res.translation))]]

\* The label step with the record for l2 appended before anything is read
\* or written.
DeriveLabelLevel_record_first(st, label, l1, l2) ==
    LET appended == AppendDerivedLevel(st, label, l1, l2)
        st2 == [arrays |-> appended.arrays, lvlattrs |-> appended.lvlattrs,
                grpattrs |-> appended.grpattrs]
        src == st.arrays[label][l1]
        a1 == st.lvlattrs[label][l1]
    IN  IF appended.status # "ok" THEN appended
        ELSE IF src = NoArray THEN Raised("KeyError", st2)
        ELSE IF a1.type # "semantic_segmentation"
             THEN Raised("NotImplementedError", st2)
        ELSE IF check_encoding(a1.encoding) = "ValueError"
             THEN Raised("ValueError", st2)
        ELSE LET down == Quantize(downslice(downscale_local_mean(src)), a1.encoding)
             IN  [status |-> "ok", error |-> "none",
                  arrays |-> [st.arrays EXCEPT ![label][l2] = down],
                  lvlattrs |-> [st.lvlattrs EXCEPT ![label][l2] =
                        [a1 EXCEPT !.complement_counts =
                                       ComplementCounts(down, a1.encoding)]],
                  grpattrs |-> appended.grpattrs]

\* One iteration of the inner loop of _smooth_multiscale_labels.
DeriveLabelLevel(st, label, l1, l2) ==
    LET src == st.arrays[label][l1]
        a1 == st.lvlattrs[label][l1]
    IN  IF src = NoArray THEN Raised("KeyError", st)
        ELSE IF a1.type # "semantic_segmentation"
             THEN Raised("NotImplementedError", st)
        ELSE IF check_encoding(a1.encoding) = "ValueError"
             THEN Raised("ValueError", st)
        ELSE LET down == Quantize(downslice(downscale_local_mean(src)), a1.encoding)
                 written ==
                    [arrays |-> [st.arrays EXCEPT ![label][l2] = down],
                     lvlattrs |-> [st.lvlattrs EXCEPT ![label][l2] =
                        [a1 EXCEPT !.complement_counts =
                                       ComplementCounts(down, a1.encoding)]],
                     grpattrs |-> st.grpattrs]
             IN  AppendDerivedLevel(written, label, l1, l2)

\* The raw step with every level derived from s0 instead of its predecessor.
DeriveRawLevel_from_s0(st, l1, l2) ==
    LET src == st.arrays["raw"]["s0"]
    IN  IF src = NoArray THEN Raised("KeyError", st)
        ELSE LET down == downslice(downscale_local_mean(src))
                 written ==
                    [arrays |-> [st.arrays EXCEPT !["raw"][l2] = down],
                     lvlattrs |-> [st.lvlattrs EXCEPT !["raw"][l2] = NoAttrs],
                     grpattrs |-> st.grpattrs]
             IN  AppendDerivedLevel(written, "raw", l1, l2)

\* One iteration of the loop of _smooth_multiscale_raw.
DeriveRawLevel(st, l1, l2) ==
    LET src == st.arrays["raw"][l1]
    IN  IF src = NoArray THEN Raised("KeyError", st)
        ELSE LET down == downslice(downscale_local_mean(src))
                 written ==
                    [arrays |-> [st.arrays EXCEPT !["raw"][l2] = down],
                     lvlattrs |-> [st.lvlattrs EXCEPT !["raw"][l2] = NoAttrs],
                     grpattrs |-> st.grpattrs]
             IN  AppendDerivedLevel(written, "raw", l1, l2)

CanStart == job.status \in {"idle", "done", "raised"} /\ runs < MaxRuns

\* The snapshot kept once the first job on the crop has completed.
SnapAfter(j, st) ==
    IF snap = NoSnap /\ j.status = "done" THEN [kind |-> j.kind, store |-> st]
    ELSE snap

\* _smooth_multiscale_labels up to its first derivation step: with fewer than
\* two scales the loops over the classes do nothing.
StartLabels ==
    /\ CanStart
    /\ LET j == IF job.num_scales < 2
                THEN [job EXCEPT !.kind = "labels", !.status = "done",
                                 !.error = "none", !.visited = Classes,
                                 !.li = Len(class_names), !.k = 0, !.last = NoStep]
                ELSE [job EXCEPT !.kind = "labels", !.status = "running",
                                 !.error = "none", !.visited = {class_names[1]},
                                 !.li = 1, !.k = 0, !.last = NoStep]
       IN  /\ job' = j
           /\ snap' = SnapAfter(j, Store)
    /\ runs' = runs + 1
    /\ UNCHANGED <<arrays, lvlattrs, grpattrs>>

\* The next derivation step of the label job: class li, levels s{k} -> s{k+1}.
LabelsStep ==
    /\ job.kind = "labels"
    /\ job.status = "running"
    /\ LET label == class_names[job.li]
           l1 == Lvl(job.k)
           l2 == Lvl(job.k + 1)
           r == DeriveLabelLevel(Store, label, l1, l2)
           j == IF r.status = "raised"
                THEN [job EXCEPT !.status = "raised", !.error = r.error]
                ELSE IF job.k + 1 <= job.num_scales - 2
                THEN [job EXCEPT !.k = @ + 1, !.last = <<label, l1, l2>>]
                ELSE IF job.li < Len(class_names)
                THEN [job EXCEPT !.li = @ + 1, !.k = 0, !.last = <<label, l1, l2>>,
                                 !.visited = @ \cup {class_names[job.li + 1]}]
                ELSE [job EXCEPT !.status = "done", !.last = <<label, l1, l2>>]
       IN  /\ arrays' = r.arrays
           /\ lvlattrs' = r.lvlattrs
           /\ grpattrs' = r.grpattrs
           /\ job' = j
           /\ snap' = SnapAfter(j, [arrays |-> r.arrays, lvlattrs |-> r.lvlattrs,
                                    grpattrs |-> r.grpattrs])
    /\ UNCHANGED runs

\* _smooth_multiscale_raw up to its first derivation step.
StartRaw ==
    /\ CanStart
    /\ LET j == IF job.num_scales < 2
                THEN [job EXCEPT !.kind = "raw", !.status = "done", !.error = "none",
                                 !.visited = {}, !.li = 0, !.k = 0, !.last = NoStep]
                ELSE [job EXCEPT !.kind = "raw", !.status = "running",
                                 !.error = "none", !.visited = {}, !.li = 0, !.k = 0,
                                 !.last = NoStep]
       IN  /\ job' = j
           /\ snap' = SnapAfter(j, Store)
    /\ runs' = runs + 1
    /\ UNCHANGED <<arrays, lvlattrs, grpattrs>>

\* The next derivation step of the raw job: levels s{k} -> s{k+1}.
RawStep ==
    /\ job.kind = "raw"
    /\ job.status = "running"
    /\ LET l1 == Lvl(job.k)
           l2 == Lvl(job.k + 1)
           r == DeriveRawLevel(Store, l1, l2)
           j == IF r.status = "raised"
                THEN [job EXCEPT !.status = "raised", !.error = r.error]
                ELSE IF job.k + 1 <= job.num_scales - 2
                THEN [job EXCEPT !.k = @ + 1, !.last = <<"raw", l1, l2>>]
                ELSE [job EXCEPT !.status = "done", !.last = <<"raw", l1, l2>>]
       IN  /\ arrays' = r.arrays
           /\ lvlattrs' = r.lvlattrs
           /\ grpattrs' = r.grpattrs
           /\ job' = j
           /\ snap' = SnapAfter(j, [arrays |-> r.arrays, lvlattrs |-> r.lvlattrs,
                                    grpattrs |-> r.grpattrs])
    /\ UNCHANGED runs

NextPyramid ==
    \/ StartLabels /\ UNCHANGED <<metaVars, encVars, batchVars, filtVars, readVars, toolVars>>
    \/ LabelsStep /\ UNCHANGED <<metaVars, encVars, batchVars, filtVars, readVars, toolVars>>
    \/ StartRaw /\ UNCHANGED <<metaVars, encVars, batchVars, filtVars, readVars, toolVars>>
    \/ RawStep /\ UNCHANGED <<metaVars, encVars, batchVars, filtVars, readVars, toolVars>>

----------------------------------------------------------------------------
(* Corrected complement counts: correct_attrs.py *)

MaxCorrectAxis == 3   \* axis lengths of the s0 arrays to correct are 1..MaxCorrectAxis

\* Encodings of the crops to correct: present above or below absent, with or
\* without a code of 0, unknown above or below the two.
CorrectEncodings ==
    {[present |-> 1, absent |-> 0, unknown |-> 9],
     [present |-> 0, absent |-> 1, unknown |-> 9],
     [present |-> 2, absent |-> 1, unknown |-> 17],
     [present |-> 1, absent |-> 2, unknown |-> 17],
     [present |-> 1, absent |-> 0, unknown |-> -1]}

CorrectShapes ==
    {<<a, b, b>> : a \in 1..MaxCorrectAxis, b \in 2..MaxCorrectAxis}

\* |x|
Abs(x) == IF x < 0 THEN -x ELSE x

\* np.sum(srcarr <= thr) for thr = abs(present - absent) / 2.0
CountBelowThr(srcarr, enc) ==
    Cardinality({c \in DOMAIN srcarr.data :
                    2 * srcarr.data[c] <= Abs(enc.present - enc.absent) * srcarr.den})

\* Lines 67-79: the complement_counts written for one level.
corrected_counts(srcarr, enc) ==
    LET num_unknown == Cardinality(UnknownVoxels(srcarr, enc))
        num_absent ==
            IF enc.present > enc.absent THEN CountBelowThr(srcarr, enc)
            ELSE LET num_present == CountBelowThr(srcarr, enc)
                 IN  (srcarr.shape[1] - num_unknown - num_present)
                     * (srcarr.shape[2] - num_unknown - num_present)
                     * (srcarr.shape[3] - num_unknown - num_present)
    IN  [absent |-> num_absent, unknown |-> num_unknown]

\* crop[label].keys(): the levels the class holds, finest first.
LevelKeys(label) ==
    SelectSeq(SubSeq(LevelSeq, 1, MaxScales), LAMBDA l : arrays[label][l] # NoArray)

\* One iteration of the inner loop of _correct_label_attrs: the level at
\* position k of class li gets its complement_counts, the other attributes
\* are put back as they were read.
CorrectLevel ==
    /\ job.kind = "correct"
    /\ job.status = "running"
    /\ LET label == class_names[job.li]
           lvl == LevelKeys(label)[job.k + 1]
           src == arrays[label][lvl]
           enc == lvlattrs[label][lvl].encoding
       IN  /\ lvlattrs' = [lvlattrs EXCEPT ![label][lvl].complement_counts =
                              corrected_counts(src, enc)]
           /\ job' = IF job.k + 1 < Len(LevelKeys(label))
                     THEN [job EXCEPT !.k = @ + 1, !.last = <<label, lvl>>]
                     ELSE IF job.li < Len(class_names)
                     THEN [job EXCEPT !.li = @ + 1, !.k = 0, !.last = <<label, lvl>>]
                     ELSE [job EXCEPT !.status = "done", !.last = <<label, lvl>>]
    /\ UNCHANGED <<arrays, grpattrs, runs, snap>>

NextCorrect ==
    CorrectLevel /\ UNCHANGED <<metaVars, encVars, batchVars, filtVars, readVars,
                                toolVars>>

----------------------------------------------------------------------------
(* Batch entry points and their dispatch loops *)

MaxDatasets == 2      \* datasets in a manifest
MaxCrops == 2         \* crops listed per dataset
MaxConcurrency == 2   \* the concurrency bound is None or 1..MaxConcurrency

\* Entry points whose background job handles one crop.
CropEntries == {"multiscale-labels", "multiscale-raw", "h5-export", "correct-attrs"}
\* Entry points whose background job handles one dataset, crop after crop.
DatasetEntries == {"check-data-yaml", "copy-crops", "add-raw"}
EntryPoints == CropEntries \cup DatasetEntries

Manifests ==
    UNION {[1..n -> 1..MaxCrops] : n \in 1..MaxDatasets}

AllCrops(m) ==
    {c \in (1..Len(m)) \X (1..MaxCrops) : c[2] <= m[c[1]]}

\* The background jobs an entry point creates: one per crop <<d, i>>, or one
\* per dataset <<d, 0>>.
JobIds(e, m) ==
    IF e \in CropEntries THEN AllCrops(m) ELSE {<<d, 0>> : d \in 1..Len(m)}

\* The concurrency bounds an entry point can be called with: None (0) where
\* the parameter defaults to None, an integer for add_raw_main's concurrence,
\* none at all for the two entry points without the parameter.
Concurrencies(e) ==
    IF e \in {"correct-attrs", "check-data-yaml"} THEN {0}
    ELSE IF e = "add-raw" THEN 1..MaxConcurrency
    ELSE 0..MaxConcurrency

\* What processing one crop does: finish, raise, or (add-raw only) fail to
\* extract the raw region with a KeyError.
FailKinds(e) ==
    IF e = "add-raw" THEN {"ok", "error", "keyerror"} ELSE {"ok", "error"}

IdleMain == [pc |-> "idle", d |-> 0, i |-> 0]

\* The loop position after the iteration at <<d, i>>; d past the manifest
\* means the loop is exhausted.
NextPos(d, i) ==
    IF entry \in {"multiscale-raw", "h5-export", "correct-attrs"} /\ i < manifest[d]
    THEN <<d, i + 1>>
    ELSE <<d + 1, 1>>

Awaited_first == IF task_list = << >> THEN {} ELSE task_list[1]

\* The jobs asyncio.gather(*task_list) waits for.
Awaited == UNION {task_list[n] : n \in 1..Len(task_list)}

\* One iteration of the entry point's loop: the @background call submits the
\* job to the executor at once; multiscale-labels submits all crops of the
\* dataset and collects their gather as one awaitable.  When the list has
\* reached max_concurrency the loop blocks on the wave.
Dispatch ==
    /\ main.pc = "loop"
    /\ LET new == IF entry = "multiscale-labels"
                  THEN {c \in AllCrops(manifest) : c[1] = main.d}
                  ELSE IF entry \in CropEntries THEN {<<main.d, main.i>>}
                  ELSE {<<main.d, 0>>}
           tl == Append(task_list, new)
           nx == NextPos(main.d, main.i)
       IN  /\ jobs' = [j \in DOMAIN jobs |-> IF j \in new THEN "running" ELSE jobs[j]]
           /\ started' = IF entry \in CropEntries THEN started \cup new ELSE started
           /\ task_list' = tl
           /\ main' =
                IF entry \notin {"correct-attrs", "check-data-yaml"}
                   /\ Len(tl) = max_concurrency
                THEN [pc |-> "wait", d |-> nx[1], i |-> nx[2]]
                ELSE IF nx[1] > Len(manifest)
                THEN [pc |-> "final", d |-> nx[1], i |-> nx[2]]
                ELSE [pc |-> "loop", d |-> nx[1], i |-> nx[2]]
    /\ UNCHANGED <<entry, manifest, max_concurrency, fails, dsfault, jobpos>>

\* A per-crop job runs to its end: it returns, or its exception leaves the
\* job function (none of these jobs catches anything).
CropJobRuns ==
    /\ entry \in CropEntries
    /\ \E j \in DOMAIN jobs :
        /\ jobs[j] = "running"
        /\ jobs' = [jobs EXCEPT ![j] = IF fails[j] = "ok" THEN "done" ELSE "raised"]
    /\ UNCHANGED <<entry, manifest, max_concurrency, fails, dsfault, main,
                   task_list, jobpos, started>>

\* What a per-dataset job does with the crop it has reached: "next" goes on
\* to the following crop, "raise" lets the exception leave the job.
\* _check_crop and _check_crop_for_raw catch every exception; _add_raw catches
\* only the KeyError of the raw selection; _copy_cellmap_dataset catches none.
CropOutcome(e, kind) ==
    IF kind = "ok" THEN "next"
    ELSE IF e = "check-data-yaml" THEN "next"
    ELSE IF e = "add-raw" /\ kind = "keyerror" THEN "next"
    ELSE "raise"

\* A per-dataset job handles its next crop.  _check_dataset first checks the
\* dataset's paths and, when one is missing, logs the error and returns
\* without looking at any crop.
DatasetJobStep ==
    /\ entry \in DatasetEntries
    /\ \E j \in DOMAIN jobs :
        /\ jobs[j] = "running"
        /\ IF entry = "check-data-yaml" /\ j[1] \in dsfault
           THEN /\ jobs' = [jobs EXCEPT ![j] = "done"]
                /\ UNCHANGED <<jobpos, started>>
           ELSE LET c == <<j[1], jobpos[j]>>
                IN  /\ started' = started \cup {c}
                    /\ IF CropOutcome(entry, fails[c]) = "raise"
                       THEN /\ jobs' = [jobs EXCEPT ![j] = "raised"]
                            /\ UNCHANGED jobpos
                       ELSE /\ jobpos' = [jobpos EXCEPT ![j] = @ + 1]
                            /\ jobs' = [jobs EXCEPT ![j] =
                                  IF jobpos[j] = manifest[j[1]] THEN "done"
                                  ELSE "running"]
    /\ UNCHANGED <<entry, manifest, max_concurrency, fails, dsfault, main, task_list>>

\* loop.run_until_complete(asyncio.gather(*task_list)) returns: every awaited
\* job has finished and none raised.  After a wave the loop goes on with an
\* empty list; after the last gather the entry point returns.
GatherReturns ==
    /\ main.pc \in {"wait", "final"}
    /\ \A j \in Awaited : jobs[j] = "done"
    /\ main' = IF main.pc = "final" THEN [main EXCEPT !.pc = "returned"]
               ELSE IF main.d > Len(manifest) THEN [main EXCEPT !.pc = "final"]
               ELSE [main EXCEPT !.pc = "loop"]
    /\ task_list' = << >>
    /\ UNCHANGED <<entry, manifest, max_concurrency, fails, dsfault, jobs, jobpos,
                   started>>

\* gather() without return_exceptions hands the first exception of an awaited
\* job to run_until_complete, which raises it out of the entry point; the
\* other jobs already submitted keep running.
GatherRaises ==
    /\ main.pc \in {"wait", "final"}
    /\ \E j \in Awaited : jobs[j] = "raised"
    /\ main' = [main EXCEPT !.pc = "raised"]
    /\ UNCHANGED <<entry, manifest, max_concurrency, fails, dsfault, task_list, jobs,
                   jobpos, started>>

NextBatch ==
    \/ Dispatch /\ UNCHANGED <<metaVars, encVars, pyrVars, filtVars, readVars, toolVars>>
    \/ CropJobRuns /\ UNCHANGED <<metaVars, encVars, pyrVars, filtVars, readVars, toolVars>>
    \/ DatasetJobStep /\ UNCHANGED <<metaVars, encVars, pyrVars, filtVars, readVars, toolVars>>
    \/ GatherReturns /\ UNCHANGED <<metaVars, encVars, pyrVars, filtVars, readVars, toolVars>>
    \/ GatherRaises /\ UNCHANGED <<metaVars, encVars, pyrVars, filtVars, readVars, toolVars>>

----------------------------------------------------------------------------
(* Crop filtering: filter_yaml.py *)

NoFile == [missing |-> "file"]
NoFiles == [missing |-> "files"]
NoArgs == [missing |-> "arguments"]
\* None for min_frac_annotated
NoFrac == [missing |-> "min_frac_annotated"]
IdleFilter == [pc |-> "idle"]

\* min_frac_annotated as a fraction num / den: 0.5, 1.0 and 50 ("percent").
Fractions == {[num |-> 1, den |-> 2], [num |-> 1, den |-> 1], [num |-> 50, den |-> 1]}

\* The label pyramids of a copied crop: s0 at 4 nm, with or without s1 at 8 nm.
FilterScale(lvl) == IF lvl = "s0" THEN <<4, 4, 4>> ELSE <<8, 8, 8>>
FilterLevelSets == {{"s0"}, {"s0", "s1"}}
FilterS0Shapes == {<<4, 4, 4>>, <<2, 4, 4>>}
\* What complement_counts says of the unknown voxels: no "unknown" key, or
\* none, half or all of the voxels.
UnknownShares == {"nokey", "none", "half", "all"}

Prod(shape) == shape[1] * shape[2] * shape[3]

\* The array of one level: its shape and the annotation attributes read.
FilterLevel(lvl, s0shape, share) ==
    LET shape == IF lvl = "s0" THEN s0shape
                 ELSE [i \in 1..3 |-> s0shape[i] \div 2]
    IN  [shape |-> shape,
         complement_counts |->
            IF share = "nokey" THEN [absent |-> 0]
            ELSE [absent |-> 0,
                  unknown |-> IF share = "none" THEN 0
                              ELSE IF share = "half" THEN Prod(shape) \div 2
                              ELSE Prod(shape)]]

\* One label group of a crop: its metadata document and its arrays.
FilterLabel(lvls, s0shape, share) ==
    [doc |-> LET d0 == add_scalelevel_to_attributes(initialize_multiscale_attributes,
                           "s0", FilterScale("s0"), <<0, 0, 0>>)
             IN  IF "s1" \in lvls
                 THEN add_scalelevel_to_attributes(d0, "s1", FilterScale("s1"),
                                                   <<4, 4, 4>>)
                 ELSE d0,
     levels |-> [l \in lvls |-> FilterLevel(l, s0shape, share)]]

\* The crops a manifest may point to: class_names and one group per class.
FilterCrops ==
    {[class_names |-> class_names,
      labels |-> [c \in Classes |->
                    FilterLabel(lv[c], shape, IF c = class_names[1] THEN "none"
                                              ELSE share)]] :
        lv \in [Classes -> FilterLevelSets], shape \in FilterS0Shapes,
        share \in UnknownShares}

FilterLabelLists ==
    {<< >>, <<"mito">>, <<"er">>, <<"mito", "er">>, <<"nuc">>, <<"er", "nuc">>}

\* The conditions filter_crop can be called with; NoValue and NoFrac are None.
FilterConditions ==
    [scale : {NoValue, <<4, 4, 4>>, <<8, 8, 8>>},
     min_size : {NoValue, <<2, 2, 2>>, <<4, 4, 4>>},
     min_frac_annotated : {NoFrac} \cup Fractions,
     labels : FilterLabelLists]

SeqToSet(q) == {q[n] : n \in 1..Len(q)}

check_res(crop, check_scale) ==
    LET ref_lbl == crop.class_names[1]
    IN  IF get_scalelevel(crop.labels[ref_lbl].doc, check_scale).status = "ValueError"
        THEN "False"
        ELSE "True"

check_min_size(crop, min_size, at_scale) ==
    LET ref_lbl == crop.class_names[1]
        found == get_scalelevel(crop.labels[ref_lbl].doc, at_scale)
    IN  IF at_scale # NoValue /\ found.status = "ValueError" THEN "ValueError"
        ELSE LET ref_scale == IF at_scale = NoValue THEN "s0" ELSE found.path
                 ref_arr == crop.labels[ref_lbl].levels[ref_scale]
             IN  IF \A i \in 1..3 : ref_arr.shape[i] >= min_size[i]
                 THEN "True" ELSE "False"

\* frac_annotated >= min_frac_annotated is compared cross-multiplied.
check_annotated_label(crop, label, min_frac_annotated, at_scale) ==
    IF min_frac_annotated.num > min_frac_annotated.den THEN "ValueError"
    ELSE IF label \notin SeqToSet(crop.class_names) THEN "False"
    ELSE LET found == get_scalelevel(crop.labels[label].doc, at_scale)
         IN  IF at_scale # NoValue /\ found.status = "ValueError" THEN "ValueError"
             ELSE LET ref_scale == IF at_scale = NoValue THEN "s0" ELSE found.path
                      arr == crop.labels[label].levels[ref_scale]
                      num_elements == Prod(arr.shape)
                      num_annotated ==
                         IF "unknown" \in DOMAIN arr.complement_counts
                         THEN num_elements - arr.complement_counts.unknown
                         ELSE num_elements
                  IN  IF num_annotated * min_frac_annotated.den
                            >= min_frac_annotated.num * num_elements
                      THEN "True" ELSE "False"

\* The loop of check_annotated from label n on: the first label that does not
\* pass ends it, with False or with the exception.
RECURSIVE CheckAnnotatedFrom(_, _, _, _, _)
CheckAnnotatedFrom(crop, labels, n, min_frac_annotated, at_scale) ==
    IF n > Len(labels) THEN "True"
    ELSE LET r == check_annotated_label(crop, labels[n], min_frac_annotated, at_scale)
         IN  IF r # "True" THEN r
             ELSE CheckAnnotatedFrom(crop, labels, n + 1, min_frac_annotated, at_scale)

check_annotated(crop, labels, min_frac_annotated, at_scale) ==
    CheckAnnotatedFrom(crop, labels, 1, min_frac_annotated, at_scale)

filter_crop_size_first(crop, scale, min_size, min_frac_annotated, labels) ==
    LET k1 == IF min_size # NoValue THEN check_min_size(crop, min_size, NoValue)
              ELSE "True"
        k2 == IF k1 = "True" /\ scale # NoValue THEN check_res(crop, scale) ELSE k1
    IN  IF k2 = "True" /\ min_frac_annotated # NoFrac
        THEN check_annotated(crop, labels, min_frac_annotated, scale)
        ELSE k2

\* "True", "False", or the exception that leaves filter_crop.
filter_crop(crop, scale, min_size, min_frac_annotated, labels) ==
    LET k1 == IF scale # NoValue THEN check_res(crop, scale) ELSE "True"
        k2 == IF k1 = "True" /\ min_size # NoValue
              THEN check_min_size(crop, min_size, scale) ELSE k1
    IN  IF k2 = "True" /\ min_frac_annotated # NoFrac
        THEN check_annotated(crop, labels, min_frac_annotated, scale)
        ELSE k2

\* The crop path of the single-crop calls.
TheCrop == <<"jrc_a", "crop1">>

\* One call filter_crop(crop_path, scale, min_size, min_frac_annotated, labels).
FilterCrop ==
    /\ fmain.pc = "call"
    /\ fresult' = filter_crop(crop_store[TheCrop], fargs.scale, fargs.min_size,
                              fargs.min_frac_annotated, fargs.labels)
    /\ fmain' = [pc |-> "called"]
    /\ UNCHANGED <<files, crop_store, fargs>>

NextFilterCrop ==
    FilterCrop /\ UNCHANGED <<metaVars, encVars, pyrVars, batchVars, readVars, toolVars>>

----------------------------------------------------------------------------
(* Manifest filtering: filter_yaml.py *)

MaxFilterDatasets == 2   \* datasets in a manifest to filter
MaxFilterCrops == 2      \* crops listed per dataset of such a manifest

\* Dataset and crop names, in the order the manifest lists them.
DatasetNames == <<"jrc_a", "jrc_b", "jrc_c", "jrc_d">>
CropNames == <<"crop1", "crop2", "crop3", "crop4">>

DatasetInfo(name, n) ==
    [raw |-> <<"raw", name>>, crop_group |-> name, crops |-> SubSeq(CropNames, 1, n)]

\* The manifests: a top-level key next to "datasets", and per dataset its
\* raw path, its crop_group and its crops.
DataConfigs ==
    UNION {{[datasets |-> [d \in {DatasetNames[k] : k \in 1..n} |->
                              DatasetInfo(d, cnt[d])],
             version |-> 1] :
              cnt \in [{DatasetNames[k] : k \in 1..n} -> 1..MaxFilterCrops]} :
           n \in 1..MaxFilterDatasets}

\* Path(datainfo["crop_group"]) / crop, for every crop the manifest lists.
CropPaths(cfg) ==
    UNION {{<<cfg.datasets[d].crop_group, cfg.datasets[d].crops[i]>> :
               i \in 1..Len(cfg.datasets[d].crops)} : d \in DOMAIN cfg.datasets}

\* The crops found behind a manifest: fully annotated, of one size, both
\* classes with the same levels.
ManifestCrops ==
    {c \in FilterCrops :
        /\ c.labels["mito"].levels["s0"].shape = <<4, 4, 4>>
        /\ c.labels["er"].levels["s0"].complement_counts = [absent |-> 0, unknown |-> 0]
        /\ DOMAIN c.labels["er"].levels = DOMAIN c.labels["mito"].levels}

\* The calls of filter_yaml_main: the manifest path, the path to write to,
\* and the conditions.
ManifestCalls ==
    {[data_yaml |-> "data.yaml", data_yaml_filtered |-> out, scale |-> c.scale,
      min_size |-> c.min_size, min_frac_annotated |-> c.min_frac_annotated,
      labels |-> c.labels] :
        out \in {"data.yaml", "filtered.yaml"},
        c \in {a \in FilterConditions :
                  /\ a.scale \in {NoValue, <<8, 8, 8>>}
                  /\ a.min_size = NoValue
                  /\ a.min_frac_annotated \in {NoFrac, [num |-> 50, den |-> 1]}
                  /\ a.labels \in {<< >>, <<"er">>}}}

\* The datasets of the manifest in file order.
DatasetOrder(cfg) ==
    SelectSeq(DatasetNames, LAMBDA d : d \in DOMAIN cfg.datasets)

finalize_dataset_keep_empty(data_config_filtered, dataname, crops_filtered) ==
    [data_config_filtered EXCEPT !.datasets[dataname].crops = crops_filtered]

\* Lines 314-317: the dataset takes the retained crops, or is deleted when
\* none is retained.
finalize_dataset(data_config_filtered, dataname, crops_filtered) ==
    IF Len(crops_filtered) > 0
    THEN [data_config_filtered EXCEPT !.datasets[dataname].crops = crops_filtered]
    ELSE [data_config_filtered EXCEPT !.datasets =
             [d \in DOMAIN @ \ {dataname} |-> @[d]]]

\* Lines 299-302: the manifest is loaded and deep-copied.
LoadManifest ==
    /\ fmain.pc = "start"
    /\ fmain' = [pc |-> "loop", d |-> 1, i |-> 1, crops_filtered |-> << >>,
                 data_config |-> files[fargs.data_yaml],
                 data_config_filtered |-> files[fargs.data_yaml]]
    /\ UNCHANGED <<files, crop_store, fargs, fresult>>

\* One iteration of the loop over the crops of a dataset: filter_crop on the
\* crop, and after the dataset's last crop the dataset's entry is settled.
\* An exception of filter_crop leaves filter_yaml_main.
FilterNextCrop ==
    /\ fmain.pc = "loop"
    /\ LET order == DatasetOrder(fmain.data_config)
           dataname == order[fmain.d]
           datainfo == fmain.data_config.datasets[dataname]
           crop == datainfo.crops[fmain.i]
           r == filter_crop(crop_store[<<datainfo.crop_group, crop>>], fargs.scale,
                            fargs.min_size, fargs.min_frac_annotated, fargs.labels)
           cf == IF r = "True" THEN Append(fmain.crops_filtered, crop)
                 ELSE fmain.crops_filtered
       IN  /\ fresult' = r
           /\ fmain' =
                IF r = "ValueError" THEN [fmain EXCEPT !.pc = "raised"]
                ELSE IF fmain.i < Len(datainfo.crops)
                THEN [fmain EXCEPT !.i = @ + 1, !.crops_filtered = cf]
                ELSE [fmain EXCEPT
                        !.pc = IF fmain.d = Len(order) THEN "write" ELSE "loop",
                        !.d = @ + 1, !.i = 1, !.crops_filtered = << >>,
                        !.data_config_filtered = finalize_dataset(@, dataname, cf)]
    /\ UNCHANGED <<files, crop_store, fargs>>

\* Lines 318-319: yaml.safe_dump(data_config_filtered) to data_yaml_filtered.
WriteFiltered ==
    /\ fmain.pc = "write"
    /\ files' = [files EXCEPT ![fargs.data_yaml_filtered] = fmain.data_config_filtered]
    /\ fmain' = [fmain EXCEPT !.pc = "returned"]
    /\ UNCHANGED <<crop_store, fargs, fresult>>

NextFilterYaml ==
    \/ LoadManifest /\ UNCHANGED <<metaVars, encVars, pyrVars, batchVars, readVars, toolVars>>
    \/ FilterNextCrop /\ UNCHANGED <<metaVars, encVars, pyrVars, batchVars, readVars, toolVars>>
    \/ WriteFiltered /\ UNCHANGED <<metaVars, encVars, pyrVars, batchVars, readVars, toolVars>>

----------------------------------------------------------------------------
(* Coordinates of an HDF5 array: h5_xarray_reader.py *)

MaxDepth == 3   \* groups above the array: array.name.count("/") is 1..MaxDepth

NoMeta == [missing |-> "multiscales"]
IdleReader == [status |-> "idle"]

\* The last component of the array's name.
ArrayBasename == "s0"
MemberNames == {"s0", "s1"}

\* A group above the array: its "multiscales" attribute, as the list of the
\* level paths it names or missing, and the names of its members.
H5GroupKinds ==
    [meta : {NoMeta} \cup {[datasets |-> ds] :
                              ds \in {<<"s0">>, <<"s1">>, <<"s0", "s1">>}},
     members : SUBSET MemberNames]

\* The chains of groups from the root down to the array's parent, which
\* holds the array.
Hierarchies ==
    {h \in UNION {[1..d -> H5GroupKinds] : d \in 1..MaxDepth} :
        ArrayBasename \in h[Len(h)].members}

\* node.parent for the node at position n of the chain; the array itself is
\* at Len(h5groups) + 1, and the parent of the root group is the root group.
Parent(n) == IF n = 1 THEN 1 ELSE n - 1

\* HDFMultiscaleGroup.from_hdf(group): KeyError when the group has no
\* "multiscales" attribute or names a level that is not one of its members.
from_hdf(group) ==
    IF group.meta = NoMeta THEN "KeyError"
    ELSE IF \E n \in 1..Len(group.meta.datasets) :
                group.meta.datasets[n] \notin group.members
    THEN "KeyError"
    ELSE "ok"

\* One iteration of the loop of read_multiscale_array, and the raise after
\* the last one.
ReadAttempt ==
    /\ rd.status = "running"
    /\ LET group == h5groups[Parent(rd.node)]
           model == from_hdf(group)
           found == model = "ok"
                    /\ \E n \in 1..Len(group.meta.datasets) :
                          group.meta.datasets[n] = ArrayBasename
           last == rd.attempts + 1 = Len(h5groups) + 1
       IN  rd' = IF found
                 THEN [rd EXCEPT !.status = "returned", !.from = Parent(rd.node),
                                 !.attempts = @ + 1]
                 ELSE [rd EXCEPT !.node = IF model = "KeyError" THEN Parent(@) ELSE @,
                                 !.attempts = @ + 1,
                                 !.status = IF last THEN "FileNotFoundError" ELSE @]
    /\ UNCHANGED h5groups

NextReader ==
    ReadAttempt /\ UNCHANGED <<metaVars, encVars, pyrVars, batchVars, filtVars, toolVars>>

----------------------------------------------------------------------------
(* Reader dispatch: h5_xarray_reader.py *)

MaxTextLen == 3   \* characters in the text of an exception

NoReaders == [missing |-> "readers"]
IdleAny == [pc |-> "idle"]

\* The text of an exception, character by character.
Chars == {"h", "5", "n", "H", "."}
ErrorTexts == UNION {[1..n -> Chars] : n \in 0..MaxTextLen}

\* pat in text
Contains(text, pat) ==
    \E i \in 1..(Len(text) - Len(pat) + 1) : SubSeq(text, i, i + Len(pat) - 1) = pat

\* What fibsem_tools.read_xarray does with the path: it returns the data or
\* raises an exception of some type with some text.
PrimaryOutcomes ==
    {[status |-> "ok", value |-> "zarr data"]}
    \cup {[status |-> "raised", type |-> t, text |-> x] :
             t \in {"ValueError", "KeyError", "FileNotFoundError"}, x \in ErrorTexts}

\* What read_h5_xarray does with the path.
SecondaryOutcomes ==
    {[status |-> "ok", value |-> "h5 data"],
     [status |-> "raised", type |-> "FileNotFoundError", text |-> <<".", "h", "5">>]}

read_any_xarray_any_type(rs) ==
    LET first == rs.read_xarray
    IN  IF first.status = "ok"
        THEN [calls |-> <<"read_xarray">>, result |-> first]
        ELSE IF Contains(first.text, <<"h", "5">>)
        THEN [calls |-> <<"read_xarray", "read_h5_xarray">>,
              result |-> rs.read_h5_xarray]
        ELSE [calls |-> <<"read_xarray">>, result |-> first]

\* Lines 187-210: the readers called, in order, and what leaves the function
\* (the value returned or the exception raised).
read_any_xarray(rs) ==
    LET first == rs.read_xarray
    IN  IF first.status = "ok"
        THEN [calls |-> <<"read_xarray">>, result |-> first]
        ELSE IF first.type = "ValueError" /\ Contains(first.text, <<"h", "5">>)
        THEN [calls |-> <<"read_xarray", "read_h5_xarray">>,
              result |-> rs.read_h5_xarray]
        ELSE [calls |-> <<"read_xarray">>, result |-> first]

\* One call read_any_xarray(path).
ReadAnyXarray ==
    /\ ra.pc = "call"
    /\ LET r == read_any_xarray(readers)
       IN  ra' = [pc |-> "called", calls |-> r.calls, result |-> r.result]
    /\ UNCHANGED readers

NextAnyReader ==
    ReadAnyXarray
    /\ UNCHANGED <<metaVars, encVars, pyrVars, batchVars, filtVars, readVars,
                   exportVars, araw>>

----------------------------------------------------------------------------
(* Export to HDF5: h5_export.py *)

MaxExportArrays == 2   \* arrays in a group of the source crop

NoTree == [missing |-> "tree"]
IdleExport == [pc |-> "idle"]

\* An attribute value of the source: a number or a string.
AttrValues == {[int |-> 1], [str |-> "1"]}

\* json.dumps(attr)
json_dumps(attr) ==
    IF "int" \in DOMAIN attr
    THEN <<"0", "1", "2", "3", "4", "5", "6", "7", "8", "9">>[attr.int + 1]
    ELSE "\"" \o attr.str \o "\""

\* dict with an empty key set
NoItems == [k \in {} |-> "none"]

\* The attributes a node of the source crop may carry.
ExportAttrs ==
    {NoItems,
     [k \in {"cellmap"} |-> [int |-> 1]],
     [k \in {"cellmap", "multiscales"} |->
         IF k = "cellmap" THEN [str |-> "1"] ELSE [int |-> 1]]}

ExportLevelNames == <<"s0", "s1", "s2", "s3">>

ZarrArrays == {[kind |-> "array", attrs |-> a] : a \in ExportAttrs}

\* A group holding arrays only: a class group or the raw group.
ZarrLeafGroups ==
    UNION {{[kind |-> "group", attrs |-> a, keys |-> SubSeq(ExportLevelNames, 1, n),
             members |-> m] :
               a \in ExportAttrs,
               m \in [{ExportLevelNames[j] : j \in 1..n} -> ZarrArrays]} :
           n \in 0..MaxExportArrays}

\* The labels group: it holds class groups.
ZarrLabelGroups ==
    {[kind |-> "group", attrs |-> a, keys |-> << >>, members |-> NoItems] :
        a \in ExportAttrs}
    \cup {[kind |-> "group", attrs |-> a, keys |-> <<"mito">>,
           members |-> [k \in {"mito"} |-> g]] :
             a \in ExportAttrs, g \in ZarrLeafGroups}

\* The source crops: a root group holding a labels group, a raw group, both
\* or neither.
ZarrCrops ==
    {[kind |-> "group", attrs |-> NoItems, keys |-> << >>, members |-> NoItems]}
    \cup {[kind |-> "group", attrs |-> NoItems, keys |-> <<"labels">>,
           members |-> [k \in {"labels"} |-> l]] : l \in ZarrLabelGroups}
    \cup {[kind |-> "group", attrs |-> NoItems, keys |-> <<"raw">>,
           members |-> [k \in {"raw"} |-> r]] : r \in ZarrLeafGroups}
    \cup {[kind |-> "group", attrs |-> NoItems, keys |-> <<"labels", "raw">>,
           members |-> [k \in {"labels", "raw"} |->
                           IF k = "labels" THEN l ELSE r]] :
             l \in ZarrLabelGroups, r \in ZarrLeafGroups}

\* d[key] = value on a dict kept as a function.
Put(d, key, value) ==
    [k \in DOMAIN d \cup {key} |-> IF k = key THEN value ELSE d[k]]

\* for k, attr in attrs.asdict().items(): target.attrs.create(k, json.dumps(attr))
RECURSIVE CreateAttrs(_, _)
CreateAttrs(target, attrs) ==
    IF DOMAIN attrs = {} THEN target
    ELSE LET k == CHOOSE k \in DOMAIN attrs : TRUE
         IN  CreateAttrs(Put(target, k, json_dumps(attrs[k])),
                         [x \in DOMAIN attrs \ {k} |-> attrs[x]])

\* _copy_data(zfh, h5fh, dataset): the group h5fh after the call.  The
\* dataset is created in h5fh; the attributes of the source array are created
\* on h5fh.attrs.
copy_data(zarr_dset, h5fh, dataset) ==
    [h5fh EXCEPT
        !.members = Put(@, dataset, [kind |-> "array", attrs |-> NoItems]),
        !.attrs = CreateAttrs(@, zarr_dset.attrs)]

RECURSIVE copy_group(_)
RECURSIVE CopyMembers(_, _, _)

\* The loop of _copy_group over zfh[group].keys() from position n on.
CopyMembers(zgroup, h5fhg, n) ==
    IF n > Len(zgroup.keys) THEN h5fhg
    ELSE LET el == zgroup.keys[n]
             child == zgroup.members[el]
         IN  CopyMembers(zgroup,
                 IF child.kind = "group"
                 THEN [h5fhg EXCEPT !.members = Put(@, el, copy_group(child))]
                 ELSE copy_data(child, h5fhg, el),
                 n + 1)

\* _copy_group(zfh, h5fh, group): the group created in h5fh for zfh[group].
copy_group(zgroup) ==
    CopyMembers(zgroup,
                [kind |-> "group", attrs |-> CreateAttrs(NoItems, zgroup.attrs),
                 members |-> NoItems],
                1)

\* Lines 103-106: the HDF5 file is created, the source crop opened.
OpenExport ==
    /\ xp.pc = "start"
    /\ h5f' = [kind |-> "group", attrs |-> NoItems, members |-> NoItems]
    /\ xp' = [pc |-> "loop", n |-> 1]
    /\ UNCHANGED zf

\* Lines 107-108: one iteration of the loop over zf.keys().
CopyNextGroup ==
    /\ xp.pc = "loop"
    /\ xp.n <= Len(zf.keys)
    /\ LET group == zf.keys[xp.n]
       IN  h5f' = [h5f EXCEPT !.members = Put(@, group, copy_group(zf.members[group]))]
    /\ xp' = [xp EXCEPT !.n = @ + 1]
    /\ UNCHANGED zf

\* Line 109: h5f.close()
CloseExport ==
    /\ xp.pc = "loop"
    /\ xp.n > Len(zf.keys)
    /\ xp' = [xp EXCEPT !.pc = "returned"]
    /\ UNCHANGED <<zf, h5f>>

NextExport ==
    \/ OpenExport /\ UNCHANGED <<metaVars, encVars, pyrVars, batchVars, filtVars,
                                 readVars, anyVars, araw>>
    \/ CopyNextGroup /\ UNCHANGED <<metaVars, encVars, pyrVars, batchVars, filtVars,
                                    readVars, anyVars, araw>>
    \/ CloseExport /\ UNCHANGED <<metaVars, encVars, pyrVars, batchVars, filtVars,
                                  readVars, anyVars, araw>>

----------------------------------------------------------------------------
(* Raw data next to the labels: add_raw.py *)

MaxAddRawCrops == 2   \* crops listed for the dataset
RawLen == 3           \* voxels per axis of the dataset's raw volume

IdleAddRaw == [pc |-> "idle"]

\* Coordinates are kept in half nanometres.  The raw volume has a voxel of
\* 1 nm and starts at 0.
RawRes == 2
RawCoordinates == {RawRes * j : j \in 0..(RawLen - 1)}

\* raw_src_xarr at one coordinate.
RawAt(c) == c \div RawRes + 1

\* No raw group in the crop.
NoGroup == [exists |-> FALSE, attrs |-> << >>, arrays |-> << >>]

\* create_group("raw", overwrite=True): a group without attributes or members.
EmptyGroup == [exists |-> TRUE, attrs |-> << >>, arrays |-> << >>]

\* A raw group left by earlier runs of add-raw and multiscale-raw.
EarlierRawGroup ==
    [exists |-> TRUE,
     attrs |-> <<add_scalelevel_to_attributes(
                    add_scalelevel_to_attributes(initialize_multiscale_attributes,
                        "s0", <<1, 1, 1>>, <<0, 0, 0>>),
                    "s1", <<2, 2, 2>>, <<1, 1, 1>>)>>,
     arrays |-> <<[name |-> "s0", data |-> <<1, 2>>],
                  [name |-> "s1", data |-> <<1>>]>>]

\* The reference label array of a crop: the coordinates of its s0 along an
\* axis are start, start + res, ..; two voxels of 1 nm or 2 nm.  A crop may
\* also lack a readable reference label.
LabelCoordinates ==
    {[res |-> r, start |-> st, len |-> 2] :
        r \in {RawRes, 2 * RawRes}, st \in 0..(RawRes * RawLen)}

AddRawCrops ==
    {[raw |-> g, lbl |-> l] :
        g \in {NoGroup, EarlierRawGroup}, l \in LabelCoordinates \cup {NoArray}}

\* np.arange(start, stop, step) for stop > start
Arange(start, stop, step) ==
    [j \in 1..((stop - start + step - 1) \div step) |-> start + (j - 1) * step]

\* Lines 79-87: the raw coordinates covering the label array.
raw_sel_coords(lbl) ==
    LET end == lbl.start + (lbl.len - 1) * lbl.res
        start_raw == lbl.start - lbl.res \div 2 + RawRes \div 2
        end_raw == end + lbl.res \div 2 - RawRes \div 2
    IN  Arange(start_raw, end_raw + RawRes, RawRes)

\* raw_src_xarr.sel(raw_sel_coords): KeyError unless every coordinate asked
\* for is one of the raw volume.
sel(coords) ==
    IF \A j \in DOMAIN coords : coords[j] \in RawCoordinates
    THEN [status |-> "ok", data |-> [j \in DOMAIN coords |-> RawAt(coords[j])]]
    ELSE [status |-> "KeyError"]

\* One iteration of the loop of _add_raw over datainfo["crops"]: the raw group
\* is created anew, then the region is looked up; a KeyError of the lookup is
\* logged and the loop goes on, otherwise attributes and s0 are written.
AddRawCrop ==
    /\ araw.pc = "loop"
    /\ araw.i <= Len(crop_store)
    /\ LET crop == crop_store[araw.i]
           rawgroup_dst == EmptyGroup
       IN  IF crop.lbl = NoArray
           THEN /\ crop_store' = [crop_store EXCEPT ![araw.i].raw = rawgroup_dst]
                /\ araw' = [araw EXCEPT !.pc = "raised"]
           ELSE LET coords == raw_sel_coords(crop.lbl)
                    raw_crop == sel(coords)
                IN  IF raw_crop.status = "KeyError"
                    THEN /\ crop_store' =
                               [crop_store EXCEPT ![araw.i].raw = rawgroup_dst]
                         /\ araw' = [araw EXCEPT !.i = @ + 1,
                                                 !.skipped = @ \cup {araw.i}]
                    ELSE /\ crop_store' = [crop_store EXCEPT ![araw.i].raw =
                               [rawgroup_dst EXCEPT
                                   !.attrs = <<add_scalelevel_to_attributes(
                                                  initialize_multiscale_attributes,
                                                  "s0",
                                                  <<RawRes \div 2, RawRes \div 2,
                                                    RawRes \div 2>>,
                                                  <<coords[1], coords[1], coords[1]>>)>>,
                                   !.arrays = <<[name |-> "s0",
                                                 data |-> raw_crop.data]>>]]
                         /\ araw' = [araw EXCEPT !.i = @ + 1,
                                                 !.added = @ \cup {araw.i}]

\* The loop is exhausted: _add_raw returns.
AddRawReturns ==
    /\ araw.pc = "loop"
    /\ araw.i > Len(crop_store)
    /\ araw' = [araw EXCEPT !.pc = "returned"]
    /\ UNCHANGED crop_store

NextAddRaw ==
    \/ AddRawCrop /\ UNCHANGED <<metaVars, encVars, pyrVars, batchVars, files, fargs,
                                 fmain, fresult, readVars, anyVars, exportVars>>
    \/ AddRawReturns /\ UNCHANGED <<metaVars, encVars, pyrVars, batchVars, files,
                                    fargs, fmain, fresult, readVars, anyVars,
                                    exportVars>>

----------------------------------------------------------------------------
(* Specifications *)

\* The metadata model: a document built by initialize and appends.
InitMeta ==
    /\ attrs_as_dict = initialize_multiscale_attributes
    /\ lastcall = NoCall
    /\ encoding = DocumentedEncoding
    /\ outcome = "none"
    /\ arrays = NoStore
    /\ lvlattrs = NoStore
    /\ grpattrs = NoStore
    /\ job = IdleJob
    /\ runs = 0
    /\ snap = NoSnap
    /\ entry = "none"
    /\ manifest = << >>
    /\ max_concurrency = 0
    /\ fails = << >>
    /\ dsfault = {}
    /\ main = IdleMain
    /\ task_list = << >>
    /\ jobs = << >>
    /\ jobpos = << >>
    /\ started = {}
    /\ readers = NoReaders
    /\ ra = IdleAny
    /\ zf = NoTree
    /\ h5f = NoTree
    /\ xp = IdleExport
    /\ araw = IdleAddRaw
    /\ h5groups = << >>
    /\ rd = IdleReader
    /\ files = NoFiles
    /\ crop_store = NoStore
    /\ fargs = NoArgs
    /\ fmain = IdleFilter
    /\ fresult = "none"

SpecMeta == InitMeta /\ [][NextMeta]_vars

\* One lookup on a document as it may be found on disk.
InitLookup ==
    /\ attrs_as_dict \in LookupDocs
    /\ lastcall = NoCall
    /\ encoding = DocumentedEncoding
    /\ outcome = "none"
    /\ arrays = NoStore
    /\ lvlattrs = NoStore
    /\ grpattrs = NoStore
    /\ job = IdleJob
    /\ runs = 0
    /\ snap = NoSnap
    /\ entry = "none"
    /\ manifest = << >>
    /\ max_concurrency = 0
    /\ fails = << >>
    /\ dsfault = {}
    /\ main = IdleMain
    /\ task_list = << >>
    /\ jobs = << >>
    /\ jobpos = << >>
    /\ started = {}
    /\ readers = NoReaders
    /\ ra = IdleAny
    /\ zf = NoTree
    /\ h5f = NoTree
    /\ xp = IdleExport
    /\ araw = IdleAddRaw
    /\ h5groups = << >>
    /\ rd = IdleReader
    /\ files = NoFiles
    /\ crop_store = NoStore
    /\ fargs = NoArgs
    /\ fmain = IdleFilter
    /\ fresult = "none"

SpecLookup == InitLookup /\ [][NextLookup]_vars

\* One call of filter_crop on one crop.
InitFilterCrop ==
    /\ files = NoFiles
    /\ crop_store \in [{TheCrop} -> FilterCrops]
    /\ fargs \in FilterConditions
    /\ fmain = [pc |-> "call"]
    /\ fresult = "none"
    /\ attrs_as_dict = initialize_multiscale_attributes
    /\ lastcall = NoCall
    /\ encoding = DocumentedEncoding
    /\ outcome = "none"
    /\ arrays = NoStore
    /\ lvlattrs = NoStore
    /\ grpattrs = NoStore
    /\ job = IdleJob
    /\ runs = 0
    /\ snap = NoSnap
    /\ entry = "none"
    /\ manifest = << >>
    /\ max_concurrency = 0
    /\ fails = << >>
    /\ dsfault = {}
    /\ main = IdleMain
    /\ task_list = << >>
    /\ jobs = << >>
    /\ jobpos = << >>
    /\ started = {}
    /\ readers = NoReaders
    /\ ra = IdleAny
    /\ zf = NoTree
    /\ h5f = NoTree
    /\ xp = IdleExport
    /\ araw = IdleAddRaw
    /\ h5groups = << >>
    /\ rd = IdleReader

SpecFilterCrop == InitFilterCrop /\ [][NextFilterCrop]_vars

\* One call of filter_yaml_main on a manifest and the crops it lists.
InitFilterYaml ==
    \E cfg \in DataConfigs :
        /\ files = [f \in {"data.yaml", "filtered.yaml"} |->
                       IF f = "data.yaml" THEN cfg ELSE NoFile]
        /\ crop_store \in [CropPaths(cfg) -> ManifestCrops]
        /\ fargs \in ManifestCalls
        /\ fmain = [pc |-> "start"]
        /\ fresult = "none"
        /\ attrs_as_dict = initialize_multiscale_attributes
        /\ lastcall = NoCall
        /\ encoding = DocumentedEncoding
        /\ outcome = "none"
        /\ arrays = NoStore
        /\ lvlattrs = NoStore
        /\ grpattrs = NoStore
        /\ job = IdleJob
        /\ runs = 0
        /\ snap = NoSnap
        /\ entry = "none"
        /\ manifest = << >>
        /\ max_concurrency = 0
        /\ fails = << >>
        /\ dsfault = {}
        /\ main = IdleMain
        /\ task_list = << >>
        /\ jobs = << >>
        /\ jobpos = << >>
        /\ started = {}
        /\ readers = NoReaders
        /\ ra = IdleAny
        /\ zf = NoTree
        /\ h5f = NoTree
        /\ xp = IdleExport
        /\ araw = IdleAddRaw
        /\ h5groups = << >>
        /\ rd = IdleReader

SpecFilterYaml == InitFilterYaml /\ [][NextFilterYaml]_vars

\* One call of read_multiscale_array on an array below a chain of groups.
InitReader ==
    /\ h5groups \in Hierarchies
    /\ rd = [status |-> "running", node |-> Len(h5groups) + 1, attempts |-> 0,
             from |-> 0]
    /\ files = NoFiles
    /\ crop_store = NoStore
    /\ fargs = NoArgs
    /\ fmain = IdleFilter
    /\ fresult = "none"
    /\ attrs_as_dict = initialize_multiscale_attributes
    /\ lastcall = NoCall
    /\ encoding = DocumentedEncoding
    /\ outcome = "none"
    /\ arrays = NoStore
    /\ lvlattrs = NoStore
    /\ grpattrs = NoStore
    /\ job = IdleJob
    /\ runs = 0
    /\ snap = NoSnap
    /\ entry = "none"
    /\ manifest = << >>
    /\ max_concurrency = 0
    /\ fails = << >>
    /\ dsfault = {}
    /\ main = IdleMain
    /\ task_list = << >>
    /\ jobs = << >>
    /\ jobpos = << >>
    /\ started = {}
    /\ readers = NoReaders
    /\ ra = IdleAny
    /\ zf = NoTree
    /\ h5f = NoTree
    /\ xp = IdleExport
    /\ araw = IdleAddRaw

SpecReader == InitReader /\ [][NextReader]_vars

\* The encoding pre-check applied to every encoding of the bounded set.
InitEncoding ==
    /\ encoding \in Encodings
    /\ outcome = "none"
    /\ attrs_as_dict = initialize_multiscale_attributes
    /\ lastcall = NoCall
    /\ arrays = NoStore
    /\ lvlattrs = NoStore
    /\ grpattrs = NoStore
    /\ job = IdleJob
    /\ runs = 0
    /\ snap = NoSnap
    /\ entry = "none"
    /\ manifest = << >>
    /\ max_concurrency = 0
    /\ fails = << >>
    /\ dsfault = {}
    /\ main = IdleMain
    /\ task_list = << >>
    /\ jobs = << >>
    /\ jobpos = << >>
    /\ started = {}
    /\ readers = NoReaders
    /\ ra = IdleAny
    /\ zf = NoTree
    /\ h5f = NoTree
    /\ xp = IdleExport
    /\ araw = IdleAddRaw
    /\ h5groups = << >>
    /\ rd = IdleReader
    /\ files = NoFiles
    /\ crop_store = NoStore
    /\ fargs = NoArgs
    /\ fmain = IdleFilter
    /\ fresult = "none"

SpecEncoding == InitEncoding /\ [][NextEncoding]_vars

\* One crop with its label classes and its raw group, each holding s0, and
\* the pyramid jobs run on it one after the other.
InitPyramid ==
    \E shape \in Shapes, pat \in Patterns, enc \in PyramidEncodings,
       fault \in Faults, t0 \in S0Transforms, n \in 1..MaxScales :
        /\ fault = NoFault \/ enc = SafeEncoding
        /\ arrays = [g \in Groups |-> [l \in PyrLevels |->
              IF l # "s0" \/ fault = [kind |-> "no_s0", group |-> g] THEN NoArray
              ELSE IF g = "raw" THEN RawVolume(shape)
              ELSE LabelVolume(shape, pat, enc)]]
        /\ lvlattrs = [g \in Groups |-> [l \in PyrLevels |->
              IF l # "s0" \/ g = "raw" \/ fault = [kind |-> "no_s0", group |-> g]
              THEN NoAttrs
              ELSE LabelAttrs(LabelVolume(shape, pat, enc), enc,
                      IF fault = [kind |-> "not_semantic", group |-> g]
                      THEN "instance_segmentation" ELSE "semantic_segmentation")]]
        /\ grpattrs = [g \in Groups |->
              IF fault = [kind |-> "no_transform", group |-> g]
              THEN initialize_multiscale_attributes
              ELSE add_scalelevel_to_attributes(initialize_multiscale_attributes,
                      "s0", t0.scale, t0.translation)]
        /\ job = [IdleJob EXCEPT !.num_scales = n]
        /\ runs = 0
        /\ snap = NoSnap
        /\ attrs_as_dict = initialize_multiscale_attributes
        /\ lastcall = NoCall
        /\ encoding = DocumentedEncoding
        /\ outcome = "none"
        /\ entry = "none"
        /\ manifest = << >>
        /\ max_concurrency = 0
        /\ fails = << >>
        /\ dsfault = {}
        /\ main = IdleMain
        /\ task_list = << >>
        /\ jobs = << >>
        /\ jobpos = << >>
        /\ started = {}
        /\ readers = NoReaders
        /\ ra = IdleAny
        /\ zf = NoTree
        /\ h5f = NoTree
        /\ xp = IdleExport
        /\ araw = IdleAddRaw
        /\ h5groups = << >>
        /\ rd = IdleReader
        /\ files = NoFiles
        /\ crop_store = NoStore
        /\ fargs = NoArgs
        /\ fmain = IdleFilter
        /\ fresult = "none"

SpecPyramid == InitPyramid /\ [][NextPyramid]_vars

\* One call of a batch entry point on a manifest.
InitBatch ==
    \E e \in EntryPoints, m \in Manifests :
        /\ entry = e
        /\ manifest = m
        /\ max_concurrency \in Concurrencies(e)
        /\ fails \in [AllCrops(m) -> FailKinds(e)]
        /\ dsfault \in IF e = "check-data-yaml" THEN SUBSET (1..Len(m)) ELSE {{}}
        /\ main = [pc |-> "loop", d |-> 1, i |-> 1]
        /\ task_list = << >>
        /\ jobs = [j \in JobIds(e, m) |-> "pending"]
        /\ jobpos = [j \in JobIds(e, m) |-> 1]
        /\ started = {}
        /\ readers = NoReaders
        /\ ra = IdleAny
        /\ zf = NoTree
        /\ h5f = NoTree
        /\ xp = IdleExport
        /\ araw = IdleAddRaw
        /\ h5groups = << >>
        /\ rd = IdleReader
        /\ files = NoFiles
        /\ crop_store = NoStore
        /\ fargs = NoArgs
        /\ fmain = IdleFilter
        /\ fresult = "none"
        /\ attrs_as_dict = initialize_multiscale_attributes
        /\ lastcall = NoCall
        /\ encoding = DocumentedEncoding
        /\ outcome = "none"
        /\ arrays = NoStore
        /\ lvlattrs = NoStore
        /\ grpattrs = NoStore
        /\ job = IdleJob
        /\ runs = 0
        /\ snap = NoSnap

SpecBatch == InitBatch /\ [][NextBatch]_vars

\* The dispatch loop and the jobs of a run in which no job raises.
NextWaves ==
    \/ Dispatch /\ UNCHANGED <<metaVars, encVars, pyrVars, filtVars, readVars, toolVars>>
    \/ CropJobRuns /\ UNCHANGED <<metaVars, encVars, pyrVars, filtVars, readVars, toolVars>>
    \/ DatasetJobStep /\ UNCHANGED <<metaVars, encVars, pyrVars, filtVars, readVars, toolVars>>
    \/ GatherReturns /\ UNCHANGED <<metaVars, encVars, pyrVars, filtVars, readVars, toolVars>>

\* One call of a batch entry point on a manifest whose crops all process
\* without an error.
InitWaves ==
    \E e \in EntryPoints, m \in Manifests :
        /\ entry = e
        /\ manifest = m
        /\ max_concurrency \in Concurrencies(e)
        /\ fails = [c \in AllCrops(m) |-> "ok"]
        /\ dsfault \in IF e = "check-data-yaml" THEN SUBSET (1..Len(m)) ELSE {{}}
        /\ main = [pc |-> "loop", d |-> 1, i |-> 1]
        /\ task_list = << >>
        /\ jobs = [j \in JobIds(e, m) |-> "pending"]
        /\ jobpos = [j \in JobIds(e, m) |-> 1]
        /\ started = {}
        /\ readers = NoReaders
        /\ ra = IdleAny
        /\ zf = NoTree
        /\ h5f = NoTree
        /\ xp = IdleExport
        /\ araw = IdleAddRaw
        /\ h5groups = << >>
        /\ rd = IdleReader
        /\ files = NoFiles
        /\ crop_store = NoStore
        /\ fargs = NoArgs
        /\ fmain = IdleFilter
        /\ fresult = "none"
        /\ attrs_as_dict = initialize_multiscale_attributes
        /\ lastcall = NoCall
        /\ encoding = DocumentedEncoding
        /\ outcome = "none"
        /\ arrays = NoStore
        /\ lvlattrs = NoStore
        /\ grpattrs = NoStore
        /\ job = IdleJob
        /\ runs = 0
        /\ snap = NoSnap

SpecWaves == InitWaves /\ [][NextWaves]_vars

\* One call of read_any_xarray on a path, whatever the two readers do with it.
InitAnyReader ==
    /\ readers \in [read_xarray : PrimaryOutcomes, read_h5_xarray : SecondaryOutcomes]
    /\ ra = [pc |-> "call"]
    /\ attrs_as_dict = initialize_multiscale_attributes
    /\ lastcall = NoCall
    /\ encoding = DocumentedEncoding
    /\ outcome = "none"
    /\ arrays = NoStore
    /\ lvlattrs = NoStore
    /\ grpattrs = NoStore
    /\ job = IdleJob
    /\ runs = 0
    /\ snap = NoSnap
    /\ entry = "none"
    /\ manifest = << >>
    /\ max_concurrency = 0
    /\ fails = << >>
    /\ dsfault = {}
    /\ main = IdleMain
    /\ task_list = << >>
    /\ jobs = << >>
    /\ jobpos = << >>
    /\ started = {}
    /\ files = NoFiles
    /\ crop_store = NoStore
    /\ fargs = NoArgs
    /\ fmain = IdleFilter
    /\ fresult = "none"
    /\ h5groups = << >>
    /\ rd = IdleReader
    /\ zf = NoTree
    /\ h5f = NoTree
    /\ xp = IdleExport
    /\ araw = IdleAddRaw

SpecAnyReader == InitAnyReader /\ [][NextAnyReader]_vars

\* One run of _export_crop on a source crop.
InitExport ==
    /\ zf \in ZarrCrops
    /\ h5f = NoTree
    /\ xp = [pc |-> "start"]
    /\ attrs_as_dict = initialize_multiscale_attributes
    /\ lastcall = NoCall
    /\ encoding = DocumentedEncoding
    /\ outcome = "none"
    /\ arrays = NoStore
    /\ lvlattrs = NoStore
    /\ grpattrs = NoStore
    /\ job = IdleJob
    /\ runs = 0
    /\ snap = NoSnap
    /\ entry = "none"
    /\ manifest = << >>
    /\ max_concurrency = 0
    /\ fails = << >>
    /\ dsfault = {}
    /\ main = IdleMain
    /\ task_list = << >>
    /\ jobs = << >>
    /\ jobpos = << >>
    /\ started = {}
    /\ files = NoFiles
    /\ crop_store = NoStore
    /\ fargs = NoArgs
    /\ fmain = IdleFilter
    /\ fresult = "none"
    /\ h5groups = << >>
    /\ rd = IdleReader
    /\ readers = NoReaders
    /\ ra = IdleAny
    /\ araw = IdleAddRaw

SpecExport == InitExport /\ [][NextExport]_vars

\* One run of _correct_label_attrs on a crop whose classes hold s0 and, where
\* the encoding allows smoothing, a smooth s1; the cached counts are stale.
InitCorrect ==
    \E shape \in CorrectShapes, pat \in Patterns, enc \in CorrectEncodings,
       smooth \in BOOLEAN :
        /\ smooth => check_encoding(enc) = "ok"
        /\ arrays = [g \in Groups |-> [l \in PyrLevels |->
              IF g = "raw" THEN NoArray
              ELSE IF l = "s0" THEN LabelVolume(shape, pat, enc)
              ELSE IF l = "s1" /\ smooth
              THEN Quantize(downslice(downscale_local_mean(
                                LabelVolume(shape, pat, enc))), enc)
              ELSE NoArray]]
        /\ lvlattrs = [g \in Groups |-> [l \in PyrLevels |->
              IF g = "raw" \/ l = "s2" \/ (l = "s1" /\ ~smooth) THEN NoAttrs
              ELSE [type |-> "semantic_segmentation", encoding |-> enc,
                    complement_counts |-> [absent |-> 0, unknown |-> 0]]]]
        /\ grpattrs = [g \in Groups |->
              add_scalelevel_to_attributes(initialize_multiscale_attributes,
                      "s0", <<4, 4, 4>>, <<0, 0, 0>>)]
        /\ job = [IdleJob EXCEPT !.kind = "correct", !.status = "running", !.li = 1]
        /\ runs = 0
        /\ snap = NoSnap
        /\ attrs_as_dict = initialize_multiscale_attributes
        /\ lastcall = NoCall
        /\ encoding = DocumentedEncoding
        /\ outcome = "none"
        /\ entry = "none"
        /\ manifest = << >>
        /\ max_concurrency = 0
        /\ fails = << >>
        /\ dsfault = {}
        /\ main = IdleMain
        /\ task_list = << >>
        /\ jobs = << >>
        /\ jobpos = << >>
        /\ started = {}
        /\ files = NoFiles
        /\ crop_store = NoStore
        /\ fargs = NoArgs
        /\ fmain = IdleFilter
        /\ fresult = "none"
        /\ h5groups = << >>
        /\ rd = IdleReader
        /\ readers = NoReaders
        /\ ra = IdleAny
        /\ zf = NoTree
        /\ h5f = NoTree
        /\ xp = IdleExport
        /\ araw = IdleAddRaw

SpecCorrect == InitCorrect /\ [][NextCorrect]_vars

\* One run of _add_raw on a dataset: the crops listed for it, each with or
\* without a raw group of earlier runs.
InitAddRaw ==
    \E crops \in UNION {[1..n -> AddRawCrops] : n \in 1..MaxAddRawCrops} :
        /\ crop_store = crops
        /\ araw = [pc |-> "loop", i |-> 1, before |-> crops, skipped |-> {},
                   added |-> {}]
        /\ attrs_as_dict = initialize_multiscale_attributes
        /\ lastcall = NoCall
        /\ encoding = DocumentedEncoding
        /\ outcome = "none"
        /\ arrays = NoStore
        /\ lvlattrs = NoStore
        /\ grpattrs = NoStore
        /\ job = IdleJob
        /\ runs = 0
        /\ snap = NoSnap
        /\ entry = "none"
        /\ manifest = << >>
        /\ max_concurrency = 0
        /\ fails = << >>
        /\ dsfault = {}
        /\ main = IdleMain
        /\ task_list = << >>
        /\ jobs = << >>
        /\ jobpos = << >>
        /\ started = {}
        /\ files = NoFiles
        /\ fargs = NoArgs
        /\ fmain = IdleFilter
        /\ fresult = "none"
        /\ h5groups = << >>
        /\ rd = IdleReader
        /\ readers = NoReaders
        /\ ra = IdleAny
        /\ zf = NoTree
        /\ h5f = NoTree
        /\ xp = IdleExport

SpecAddRaw == InitAddRaw /\ [][NextAddRaw]_vars

----------------------------------------------------------------------------
----------------------------------------------------------------------------
(* Claims *)

\* C1 (as claimed): after add_scalelevel_to_attributes(doc, name, scale,
\* translation), for any level name, get_scale_and_translation(doc, name)
\* returns exactly that scale and that translation.
C1_RoundTripAnyName ==
    lastcall.op = "add" =>
        get_scale_and_translation(attrs_as_dict, lastcall.scalelvl) =
            [status |-> "ok", scale |-> lastcall.scale,
             translation |-> lastcall.translation]

\* C1 (amended): the round trip holds when no level of that name was in the
\* document before the call; when one was, the lookup still returns what it
\* returned before the call.
C1_RoundTripFreshName ==
    lastcall.op = "add" =>
        get_scale_and_translation(attrs_as_dict, lastcall.scalelvl) =
            IF lastcall.fresh
            THEN [status |-> "ok", scale |-> lastcall.scale,
                  translation |-> lastcall.translation]
            ELSE lastcall.before

\* C1 witness: a level appended under a fresh name next to other levels.
C1_Witness ==
    /\ lastcall.op = "add"
    /\ lastcall.fresh
    /\ Len(attrs_as_dict.datasets) >= 2
    /\ get_scale_and_translation(attrs_as_dict, lastcall.scalelvl).status = "ok"

\* C2: appending a name twice is accepted and leaves two records with that
\* path; the lookup then returns the transform of the first-appended record.
C2_FirstMatchWins ==
    (lastcall.op = "add" /\ ~lastcall.fresh) =>
        LET ds == attrs_as_dict.datasets
            first == FirstIndex(ds, lastcall.scalelvl)
            got == get_scale_and_translation(attrs_as_dict, lastcall.scalelvl)
        IN  /\ first < Len(ds)
            /\ ds[Len(ds)].path = lastcall.scalelvl
            /\ ds[first].path = lastcall.scalelvl
            /\ got.status = "ok"
            /\ got.scale = ds[first].coordinateTransformations[1].scale
            /\ got.translation = ds[first].coordinateTransformations[2].translation
            /\ got = lastcall.before

\* C2 witness: a second record of the same path whose transform differs from
\* the first one's.
C2_Witness ==
    /\ lastcall.op = "add"
    /\ ~lastcall.fresh
    /\ lastcall.before.scale # lastcall.scale
    /\ lastcall.before.translation # lastcall.translation

\* C3: check_encoding raises ValueError exactly when
\* unknown <= 8 * max(present, absent) and returns normally otherwise;
\* {1, 0, 100} passes and {1, 0, 8} fails.
C3_CheckEncodingThreshold ==
    outcome # "none" =>
        LET m == IF encoding.present > encoding.absent
                 THEN encoding.present ELSE encoding.absent
        IN  /\ (outcome = "ValueError") <=> (encoding.unknown - 8 * m <= 0)
            /\ (outcome = "ok") <=> (encoding.unknown - 8 * m > 0)
            /\ encoding = [present |-> 1, absent |-> 0, unknown |-> 100]
                   => outcome = "ok"
            /\ encoding = [present |-> 1, absent |-> 0, unknown |-> 8]
                   => outcome = "ValueError"

\* C3 witness: the boundary encoding {1, 0, 8} has been rejected.
C3_Witness ==
    /\ encoding = [present |-> 1, absent |-> 0, unknown |-> 8]
    /\ outcome = "ValueError"

\* The source voxels of output voxel c of level k + 1 of group g that hold the
\* unknown code.
UnknownInBlock(g, k, c) ==
    LET src == arrays[g][Lvl(k)]
        enc == lvlattrs[g][Lvl(k)].encoding
    IN  {p \in Block(src, c) : src.data[p] = enc.unknown * src.den}

\* Level k + 1 of group g has been derived from level k.
Derived(g, k) == arrays[g][Lvl(k)] # NoArray /\ arrays[g][Lvl(k + 1)] # NoArray

\* C4: for every encoding check_encoding accepts and every derivation step of
\* a label pyramid, an output voxel whose 2x2x2 source block holds at least
\* one unknown voxel is stored as exactly unknown.
C4_UnknownBlocksStayUnknown ==
    \A g \in Classes : \A k \in 0..(MaxScales - 2) :
        (Derived(g, k) /\ check_encoding(lvlattrs[g][Lvl(k)].encoding) = "ok") =>
            LET down == arrays[g][Lvl(k + 1)]
                enc == lvlattrs[g][Lvl(k)].encoding
            IN  \A c \in DOMAIN down.data :
                    UnknownInBlock(g, k, c) # {} =>
                        down.data[c] = enc.unknown * down.den

\* C5: in every derivation step of the label and raw jobs the record appended
\* for l2 has scale 2 * l1.scale and translation l1.translation + 0.5 *
\* l1.scale per axis, l1's transform being the one resolved from the group's
\* document; scale (4,4,4) nm and translation (2,2,2) nm give (8,8,8) nm and
\* (4,4,4) nm.
C5_DerivedTransform ==
    job.last # NoStep =>
        LET ds == grpattrs[job.last[1]].datasets
            rec == ds[Len(ds)]
            l1 == get_scale_and_translation(grpattrs[job.last[1]], job.last[2])
            rec_scale == rec.coordinateTransformations[1].scale
            rec_translation == rec.coordinateTransformations[2].translation
        IN  /\ l1.status = "ok"
            /\ rec.path = job.last[3]
            /\ \A i \in 1..3 :
                  /\ rec_scale[i] = 2 * l1.scale[i]
                  /\ rec_translation[i] = l1.translation[i] + l1.scale[i]
            /\ (l1.scale = <<4, 4, 4>> /\ l1.translation = <<4, 4, 4>>) =>
                  (rec_scale = <<8, 8, 8>> /\ rec_translation = <<8, 8, 8>>)

\* C5 witness: a label job has derived s1 of the second class from an s0 of
\* scale (4,4,4) nm and translation (2,2,2) nm.
C5_Witness ==
    /\ job.kind = "labels"
    /\ job.last = <<"er", "s0", "s1">>
    /\ get_scale_and_translation(grpattrs["er"], "s0") =
          [status |-> "ok", scale |-> <<4, 4, 4>>, translation |-> <<4, 4, 4>>]
    /\ get_scale_and_translation(grpattrs["er"], "s1") =
          [status |-> "ok", scale |-> <<8, 8, 8>>, translation |-> <<8, 8, 8>>]

\* C6: at every derivation step each axis length of the written level l2 is
\* exactly floor(n / 2) for the axis length n of l1, n even or odd.
C6_AxesExactlyHalved ==
    \A g \in Groups : \A k \in 0..(MaxScales - 2) :
        Derived(g, k) =>
            \A i \in 1..3 :
                arrays[g][Lvl(k + 1)].shape[i] = arrays[g][Lvl(k)].shape[i] \div 2

\* C7: running the label (or raw) pyramid job a second time with the same
\* number of levels leaves the crop (arrays, per-level attributes, metadata
\* documents) as the first completed run left it.
C7_RerunIdempotent ==
    (snap # NoSnap /\ job.status = "done" /\ job.kind = snap.kind) =>
        Store = snap.store

\* C8: in every state reached by runs of the pyramid jobs, repeated or re-run
\* after a failure, from documents with pairwise distinct level paths, every
\* metadata document still has pairwise distinct level paths.
C8_LevelPathsStayUnique ==
    \A g \in Groups : UniquePaths(grpattrs[g])

\* C10: when the derivation for one class of a label job raises, the classes
\* listed after it in class_names are still processed.
C10_LaterClassesProcessed ==
    (job.kind = "labels" /\ job.status = "raised") =>
        \A i \in (job.li + 1)..Len(class_names) : class_names[i] \in job.visited

\* The entry point has returned or raised and no background job is running.
BatchQuiescent ==
    /\ main.pc \in {"returned", "raised"}
    /\ \A j \in DOMAIN jobs : jobs[j] # "running"

\* C9: whatever jobs raise, the error of a failing job stays in that job, so
\* the job of every listed crop is still started: once the run has come to
\* rest, processing has begun for every crop of the manifest (stated for
\* manifests whose dataset paths all exist, so that only crop processing can
\* raise).
C9_EveryListedCropStarted ==
    (BatchQuiescent /\ dsfault = {}) => \A c \in AllCrops(manifest) : c \in started

\* Background jobs dispatched and not yet completed.
InFlight == {j \in DOMAIN jobs : jobs[j] = "running"}

\* C11: for every entry point called with a concurrency bound c >= 1
\* (multiscale-labels, multiscale-raw, copy-crops, h5-export, add-raw) and
\* every manifest, at no point are more than c background jobs dispatched and
\* not yet completed.
C11_InFlightBounded ==
    (entry \in {"multiscale-labels", "multiscale-raw", "copy-crops", "h5-export",
                "add-raw"}
     /\ max_concurrency >= 1) =>
        Cardinality(InFlight) <= max_concurrency

\* No job of the run raises out of its job function.
NoJobRaises ==
    \A c \in AllCrops(manifest) : CropOutcome(entry, fails[c]) # "raise"

\* The jobs of the wave being collected or awaited.
CurrentWave == UNION {task_list[n] : n \in 1..Len(task_list)}

\* C12: in the wave-batched dispatch loops, when no job raises, a job that has
\* not completed belongs to the wave being collected or awaited (so no job of
\* a later wave starts before every job of the preceding wave has completed),
\* and when the entry point has returned every job has completed.
C12_WavesAreBarriers ==
    (entry \in EntryPoints /\ NoJobRaises) =>
        /\ \A j \in DOMAIN jobs : jobs[j] = "running" => j \in CurrentWave
        /\ main.pc = "returned" => \A j \in DOMAIN jobs : jobs[j] = "done"

\* C12 witness: with a bound of 1 and no failing crop, a job of the second
\* wave is running after the job of the first wave has completed.
C12_Witness ==
    /\ entry = "multiscale-raw"
    /\ max_concurrency = 1
    /\ NoJobRaises
    /\ jobs[<<1, 1>>] = "done"
    /\ \E j \in DOMAIN jobs : jobs[j] = "running" /\ j \in CurrentWave

\* The levels of doc whose first scale transform is `scale`.
LevelsWithScale(doc, scale) ==
    {i \in 1..Len(doc.datasets) :
        LET cts == doc.datasets[i].coordinateTransformations
            sc == {n \in 1..Len(cts) : cts[n].type = "scale"}
        IN  /\ sc # {}
            /\ cts[CHOOSE n \in sc : \A m \in sc : n <= m].scale = scale}

\* C13: get_scalelevel(group, request) returns the path of the first level,
\* in document order, whose first scale transform equals the request, and
\* raises ValueError exactly when no level's scale equals the request.
C13_FirstLevelWithScale ==
    lastcall.op = "get_scalelevel" =>
        LET hits == LevelsWithScale(attrs_as_dict, lastcall.request_scale)
        IN  IF hits = {} THEN lastcall.result.status = "ValueError"
            ELSE /\ lastcall.result.status = "ok"
                 /\ lastcall.result.path =
                       attrs_as_dict.datasets[
                           CHOOSE i \in hits : \A j \in hits : i <= j].path

\* The levels of doc whose path is `name`.
LevelsNamed(doc, name) ==
    {i \in 1..Len(doc.datasets) : doc.datasets[i].path = name}

\* The positions in cts of the transforms of the given type.
OfType(cts, type) == {n \in 1..Len(cts) : cts[n].type = type}

\* C14: get_scale_and_translation(doc, name) raises ValueError exactly when
\* no level has path `name`, or the first level of that path holds a transform
\* whose type is neither "scale" nor "translation", or that level lacks a
\* scale or a translation transform; otherwise it returns that level's scale
\* and translation.  The transforms of other levels never cause an error.
C14_ErrorCasesExact ==
    lastcall.op = "get_scale_and_translation" =>
        LET hits == LevelsNamed(attrs_as_dict, lastcall.scalelvl)
            first == CHOOSE i \in hits : \A j \in hits : i <= j
            cts == attrs_as_dict.datasets[first].coordinateTransformations
            sc == OfType(cts, "scale")
            tr == OfType(cts, "translation")
            res == lastcall.result
        IN  IF hits = {} THEN res.status = "ValueError"
            ELSE IF sc \cup tr # 1..Len(cts) \/ sc = {} \/ tr = {}
            THEN res.status = "ValueError"
            ELSE /\ res.status = "ok"
                 /\ res.scale = cts[CHOOSE n \in sc : \A m \in sc : m <= n].scale
                 /\ res.translation =
                       cts[CHOOSE n \in tr : \A m \in tr : m <= n].translation

\* C14 witness: the lookup succeeded on a level that is followed by a level
\* of the same path holding a transform of another type.
C14_Witness ==
    /\ lastcall.op = "get_scale_and_translation"
    /\ lastcall.result.status = "ok"
    /\ \E i \in LevelsNamed(attrs_as_dict, lastcall.scalelvl) :
          OfType(attrs_as_dict.datasets[i].coordinateTransformations, "affine") # {}

\* C15: extract_single_scale_attrs(doc, name, rename) returns a document
\* whose level list is exactly one record, the first level of doc with path
\* `name`, its path set to `rename` and its transforms unchanged, with axes
\* and top-level transforms unchanged; when no level has path `name` it raises
\* ValueError and the level list is left as it was.
C15_ExtractFirstRenamed ==
    lastcall.op = "extract_single_scale_attrs" =>
        LET before == lastcall.before
            hits == LevelsNamed(before, lastcall.scalelvl)
            first == CHOOSE i \in hits : \A j \in hits : i <= j
        IN  IF hits = {}
            THEN /\ lastcall.status = "ValueError"
                 /\ attrs_as_dict.datasets = before.datasets
            ELSE /\ lastcall.status = "ok"
                 /\ Len(attrs_as_dict.datasets) = 1
                 /\ attrs_as_dict.datasets[1].path = lastcall.rename
                 /\ attrs_as_dict.datasets[1].coordinateTransformations =
                       before.datasets[first].coordinateTransformations
                 /\ attrs_as_dict.axes = before.axes
                 /\ attrs_as_dict.coordinateTransformations =
                       before.coordinateTransformations

\* C15 witness: a level was extracted under a new name from a document
\* holding two levels of the requested path with different transforms.
C15_Witness ==
    /\ lastcall.op = "extract_single_scale_attrs"
    /\ lastcall.status = "ok"
    /\ lastcall.rename # lastcall.scalelvl
    /\ \E i, j \in LevelsNamed(lastcall.before, lastcall.scalelvl) :
          lastcall.before.datasets[i].coordinateTransformations #
              lastcall.before.datasets[j].coordinateTransformations

\* The crop and the conditions of the single call of filter_crop.
CalledCrop == crop_store[TheCrop]

\* The label group has a level of the requested scale (any level when no
\* scale is requested).
HasScale(crop, label, scale) ==
    scale = NoValue \/ LevelsWithScale(crop.labels[label].doc, scale) # {}

\* The array of the label at the requested scale, at s0 when none is requested.
ArrayAt(crop, label, scale) ==
    IF scale = NoValue THEN crop.labels[label].levels["s0"]
    ELSE LET doc == crop.labels[label].doc
             i == CHOOSE i \in LevelsWithScale(doc, scale) : TRUE
         IN  crop.labels[label].levels[doc.datasets[i].path]

ScalePasses(crop, a) == HasScale(crop, crop.class_names[1], a.scale)

SizePasses(crop, a) ==
    a.min_size = NoValue
    \/ \A i \in 1..3 :
          ArrayAt(crop, crop.class_names[1], a.scale).shape[i] >= a.min_size[i]

AnnotationPasses(crop, a) ==
    a.min_frac_annotated = NoFrac
    \/ \A n \in 1..Len(a.labels) :
          /\ a.labels[n] \in DOMAIN crop.labels
          /\ HasScale(crop, a.labels[n], a.scale)
          /\ LET arr == ArrayAt(crop, a.labels[n], a.scale)
                 unknown == IF "unknown" \in DOMAIN arr.complement_counts
                            THEN arr.complement_counts.unknown ELSE 0
             IN  (Prod(arr.shape) - unknown) * a.min_frac_annotated.den
                    >= a.min_frac_annotated.num * Prod(arr.shape)

\* C16: filter_crop returns True exactly when every enabled check passes,
\* the checks being taken in the order scale, minimum size, annotated
\* fraction: a crop lacking the requested scale is excluded whatever the
\* other conditions are, a crop passing scale but below min_size on some
\* axis is excluded, a condition given as None is a no-op, and size and
\* annotation are evaluated at s0 when scale is None.
C16_FilterCropChecksInOrder ==
    fmain.pc = "called" =>
        /\ fresult = "True" <=>
              (/\ ScalePasses(CalledCrop, fargs)
               /\ SizePasses(CalledCrop, fargs)
               /\ AnnotationPasses(CalledCrop, fargs))
        /\ ~ScalePasses(CalledCrop, fargs) => fresult = "False"
        /\ (ScalePasses(CalledCrop, fargs) /\ ~SizePasses(CalledCrop, fargs))
              => fresult = "False"
        /\ (fargs.scale = NoValue /\ fargs.min_size = NoValue
            /\ fargs.min_frac_annotated = NoFrac) => fresult = "True"

\* C16 witness: a crop that has the requested scale, is large enough at s0
\* but too small at the requested scale, and was excluded.
C16_Witness ==
    /\ fmain.pc = "called"
    /\ fargs.scale = <<8, 8, 8>>
    /\ fargs.min_size = <<2, 2, 2>>
    /\ ScalePasses(CalledCrop, fargs)
    /\ CalledCrop.labels["mito"].levels["s0"].shape = <<2, 4, 4>>
    /\ fresult = "False"

\* The labels filter_crop looks at: the first class and the requested labels
\* that are classes of the crop.
CheckedLabels(crop, a) ==
    {crop.class_names[1]} \cup (SeqToSet(a.labels) \cap DOMAIN crop.labels)

\* C18: during filtering a scale lookup failure is never fatal: when the
\* scale filter is active and some checked label of the crop has no level of
\* the requested scale, filter_crop returns False instead of raising.
C18_MissingScaleGivesFalse ==
    (/\ fmain.pc = "called"
     /\ fargs.scale # NoValue
     /\ \E l \in CheckedLabels(CalledCrop, fargs) :
           ~HasScale(CalledCrop, l, fargs.scale)) =>
        fresult = "False"

\* C17: filter_yaml_main called with min_frac_annotated > 1 raises
\* ValueError and writes no filtered manifest, for every manifest with at
\* least one crop and every choice of labels, scale and min_size.
C17_PercentFailsFast ==
    (/\ fargs # NoArgs
     /\ fargs.min_frac_annotated # NoFrac
     /\ fargs.min_frac_annotated.num > fargs.min_frac_annotated.den) =>
        /\ fmain.pc \notin {"write", "returned"}
        /\ files["filtered.yaml"] = NoFile

\* filter_crop on the crop `crop` of the dataset described by datainfo.
Retained(datainfo, crop) ==
    filter_crop(crop_store[<<datainfo.crop_group, crop>>], fargs.scale,
                fargs.min_size, fargs.min_frac_annotated, fargs.labels) = "True"

\* The written manifest `out` is the manifest `cfg` with each dataset's crop
\* list cut down to the retained crops, in order, datasets without a
\* retained crop removed, and everything else as in cfg.
IsFilteredManifest(out, cfg) ==
    /\ DOMAIN out = DOMAIN cfg
    /\ \A k \in DOMAIN cfg \ {"datasets"} : out[k] = cfg[k]
    /\ DOMAIN out.datasets =
          {d \in DOMAIN cfg.datasets :
              \E i \in 1..Len(cfg.datasets[d].crops) :
                  Retained(cfg.datasets[d], cfg.datasets[d].crops[i])}
    /\ \A d \in DOMAIN out.datasets :
          /\ out.datasets[d].raw = cfg.datasets[d].raw
          /\ out.datasets[d].crop_group = cfg.datasets[d].crop_group
          /\ out.datasets[d].crops =
                SelectSeq(cfg.datasets[d].crops,
                          LAMBDA c : Retained(cfg.datasets[d], c))

\* C19 (as claimed): the manifest filter_yaml_main writes is the filtered
\* manifest, and the input manifest file is not modified.
C19_FilteredManifestInputKept ==
    fmain.pc = "returned" =>
        /\ IsFilteredManifest(files[fargs.data_yaml_filtered], fmain.data_config)
        /\ files[fargs.data_yaml] = fmain.data_config

\* C19 (amended): the manifest written is the filtered manifest, and the
\* input manifest file is not modified when data_yaml_filtered is another
\* path than data_yaml.
C19_FilteredManifestWritten ==
    fmain.pc = "returned" =>
        /\ IsFilteredManifest(files[fargs.data_yaml_filtered], fmain.data_config)
        /\ fargs.data_yaml_filtered # fargs.data_yaml
              => files[fargs.data_yaml] = fmain.data_config

\* C19 witness: written to another path, one dataset lost a crop and kept
\* another, and one dataset was removed.
C19_Witness ==
    /\ fmain.pc = "returned"
    /\ fargs.data_yaml_filtered = "filtered.yaml"
    /\ DOMAIN files["filtered.yaml"].datasets = {"jrc_a"}
    /\ DOMAIN fmain.data_config.datasets = {"jrc_a", "jrc_b"}
    /\ files["filtered.yaml"].datasets["jrc_a"].crops = <<"crop2">>

\* The groups above the array whose multiscale metadata lists the array's name.
Qualifying ==
    {k \in 1..Len(h5groups) :
        /\ h5groups[k].meta # NoMeta
        /\ \E n \in 1..Len(h5groups[k].meta.datasets) :
              h5groups[k].meta.datasets[n] = ArrayBasename}

\* Every level a group's metadata names is a member of that group.
LevelsExist ==
    \A k \in 1..Len(h5groups) :
        h5groups[k].meta # NoMeta =>
            \A n \in 1..Len(h5groups[k].meta.datasets) :
                h5groups[k].meta.datasets[n] \in h5groups[k].members

\* C20: read_multiscale_array resolves coordinates from the nearest ancestor
\* group whose multiscale metadata lists the array's name, walking one group
\* up past an ancestor without metadata and past one whose metadata does not
\* list the name; it raises FileNotFoundError exactly when no ancestor up to
\* the root qualifies, and it ends after at most depth + 1 attempts (stated
\* for files in which every level named by a group's metadata exists).
C20_NearestQualifyingAncestor ==
    /\ rd.status # "idle" => rd.attempts <= Len(h5groups) + 1
    /\ (rd.status \in {"returned", "FileNotFoundError"} /\ LevelsExist) =>
          IF Qualifying = {} THEN rd.status = "FileNotFoundError"
          ELSE /\ rd.status = "returned"
               /\ rd.from = CHOOSE k \in Qualifying : \A j \in Qualifying : j <= k

\* C21 (as claimed): read_any_xarray calls the primary reader first and
\* returns its result without calling the HDF5 reader when it succeeds; it
\* falls back to the HDF5 reader exactly when the primary reader failed with
\* an error whose text contains "h5"; every other primary error propagates
\* unchanged and the HDF5 reader is not called.
C21_FallbackOnAnyH5Error ==
    ra.pc = "called" =>
        LET first == readers.read_xarray
            fellback == ra.calls = <<"read_xarray", "read_h5_xarray">>
        IN  /\ ra.calls[1] = "read_xarray"
            /\ first.status = "ok" => (ra.calls = <<"read_xarray">> /\ ra.result = first)
            /\ fellback <=>
                  (first.status = "raised" /\ Contains(first.text, <<"h", "5">>))
            /\ (first.status = "raised" /\ ~fellback) =>
                  (ra.calls = <<"read_xarray">> /\ ra.result = first)

\* C21 (amended): the fallback happens exactly when the primary reader raised
\* a ValueError whose text contains "h5", and then what the HDF5 reader
\* returns or raises leaves the function; a primary error of another type, or
\* a ValueError without "h5" in its text, propagates unchanged and the HDF5
\* reader is not called.
C21_FallbackOnValueErrorH5 ==
    ra.pc = "called" =>
        LET first == readers.read_xarray
            fellback == ra.calls = <<"read_xarray", "read_h5_xarray">>
        IN  /\ ra.calls[1] = "read_xarray"
            /\ first.status = "ok" => (ra.calls = <<"read_xarray">> /\ ra.result = first)
            /\ fellback <=>
                  (/\ first.status = "raised"
                   /\ first.type = "ValueError"
                   /\ Contains(first.text, <<"h", "5">>))
            /\ fellback => ra.result = readers.read_h5_xarray
            /\ (first.status = "raised" /\ ~fellback) =>
                  (ra.calls = <<"read_xarray">> /\ ra.result = first)

\* C21 witness: the primary reader raised a ValueError naming h5 inside a
\* longer text, and the HDF5 reader's data was returned.
C21_Witness ==
    /\ ra.pc = "called"
    /\ readers.read_xarray.status = "raised"
    /\ readers.read_xarray.text = <<".", "h", "5">>
    /\ ra.calls = <<"read_xarray", "read_h5_xarray">>
    /\ ra.result = [status |-> "ok", value |-> "h5 data"]

\* The node h5node of the HDF5 file mirrors the node znode of the source:
\* same kind, exactly the attribute keys of the source with each value the
\* JSON encoding of the source value, and for a group the same members, each
\* mirroring its source.
RECURSIVE Mirrors(_, _)
Mirrors(znode, h5node) ==
    /\ h5node.kind = znode.kind
    /\ DOMAIN h5node.attrs = DOMAIN znode.attrs
    /\ \A k \in DOMAIN znode.attrs : h5node.attrs[k] = json_dumps(znode.attrs[k])
    /\ znode.kind = "group" =>
          /\ DOMAIN h5node.members = DOMAIN znode.members
          /\ \A m \in DOMAIN znode.members :
                Mirrors(znode.members[m], h5node.members[m])

\* C22: after h5-export of a crop the HDF5 file mirrors the source tree below
\* the root: every source group and array exists at the same path and every
\* node carries exactly the attribute keys of its source node, each value the
\* JSON encoding of the source value; a group's attributes are not altered by
\* exporting its child arrays.
C22_ExportMirrorsSource ==
    xp.pc = "returned" =>
        /\ DOMAIN h5f.members = DOMAIN zf.members
        /\ \A g \in DOMAIN zf.members : Mirrors(zf.members[g], h5f.members[g])

\* The voxels of arr that are not unknown and lie on the absent side of
\* (present + absent) / 2, those exactly at the threshold left out (strict)
\* or counted (not strict).
AbsentSide(arr, enc, strict) ==
    {c \in DOMAIN arr.data \ UnknownVoxels(arr, enc) :
        LET twice == 2 * arr.data[c]
            thr2 == (enc.present + enc.absent) * arr.den
        IN  IF twice = thr2 THEN ~strict
            ELSE IF enc.absent < enc.present THEN twice < thr2
            ELSE twice > thr2}

\* C23: correct-attrs binarizes at the threshold halfway between the present
\* and absent codes: for every encoding and every level array corrected, the
\* stored complement_counts.unknown is the number of voxels equal to unknown
\* and the stored complement_counts.absent is the number of non-unknown voxels
\* on the absent side of (present + absent) / 2 (a voxel exactly at the
\* threshold may count or not).
C23_CountsAtHalfwayThreshold ==
    (job.kind = "correct" /\ job.last # NoStep) =>
        LET arr == arrays[job.last[1]][job.last[2]]
            a == lvlattrs[job.last[1]][job.last[2]]
        IN  /\ a.complement_counts.unknown =
                  Cardinality(UnknownVoxels(arr, a.encoding))
            /\ a.complement_counts.absent >=
                  Cardinality(AbsentSide(arr, a.encoding, TRUE))
            /\ a.complement_counts.absent <=
                  Cardinality(AbsentSide(arr, a.encoding, FALSE))

\* The group the running pyramid job is working on.
JobGroup == IF job.kind = "raw" THEN "raw" ELSE class_names[job.li]

\* The record paths of a group's metadata document, in order.
RecordPaths(g) ==
    [n \in 1..Len(grpattrs[g].datasets) |-> grpattrs[g].datasets[n].path]

\* What a derivation step has to store for l2 given level l1 alone.
DerivedFrom(g, src, a1) ==
    IF g = "raw" THEN downslice(downscale_local_mean(src))
    ELSE Quantize(downslice(downscale_local_mean(src)), a1.encoding)

\* While a job runs its position k is one of 0..N-2, the levels s1..s{k} of
\* its group have their array and their record; a finished job with N >= 2
\* ended with the step s{N-2} -> s{N-1}.
C24_Position ==
    /\ (job.kind \in {"labels", "raw"} /\ job.status = "running") =>
          /\ job.k \in 0..(job.num_scales - 2)
          /\ \A j \in 1..job.k :
                /\ arrays[JobGroup][Lvl(j)] # NoArray
                /\ \E n \in DOMAIN RecordPaths(JobGroup) :
                      RecordPaths(JobGroup)[n] = Lvl(j)
    /\ (job.kind \in {"labels", "raw"} /\ job.status = "done"
            /\ job.num_scales >= 2) =>
          job.last = <<JobGroup, Lvl(job.num_scales - 2), Lvl(job.num_scales - 1)>>

\* One step of a pyramid job: with N <= 1 the store is left alone; step k
\* writes nothing but s{k+1} of its group (array, per-level attributes) and
\* appends at most one record, for s{k+1}; what it stores is a function of
\* level s{k} alone; k advances by one until N-2 and starts again at 0 for
\* the next class.
C24_Step ==
    /\ job.num_scales <= 1 => Store' = Store
    /\ job.status # "running" => Store' = Store
    /\ (job.kind \in {"labels", "raw"} /\ job.status = "running") =>
          LET g == JobGroup
              l1 == Lvl(job.k)
              l2 == Lvl(job.k + 1)
          IN  /\ \A h \in Groups : \A l \in PyrLevels :
                    (h # g \/ l # l2) =>
                        /\ arrays'[h][l] = arrays[h][l]
                        /\ lvlattrs'[h][l] = lvlattrs[h][l]
              /\ \A h \in Groups \ {g} : grpattrs'[h] = grpattrs[h]
              /\ \/ grpattrs'[g] = grpattrs[g]
                 \/ /\ Len(grpattrs'[g].datasets) = Len(grpattrs[g].datasets) + 1
                    /\ SubSeq(grpattrs'[g].datasets, 1, Len(grpattrs[g].datasets))
                          = grpattrs[g].datasets
                    /\ grpattrs'[g].datasets[Len(grpattrs'[g].datasets)].path = l2
              /\ job'.status # "raised" =>
                    /\ arrays'[g][l2] =
                          DerivedFrom(g, arrays[g][l1], lvlattrs[g][l1])
                    /\ grpattrs'[g] # grpattrs[g]
                    /\ job'.last = <<g, l1, l2>>
                    /\ job'.status = "done" => job.k = job.num_scales - 2
                    /\ (job'.status = "running" /\ job'.li = job.li) =>
                          job'.k = job.k + 1
                    /\ (job'.status = "running" /\ job'.li # job.li) =>
                          /\ job.k = job.num_scales - 2
                          /\ job'.li = job.li + 1
                          /\ job'.k = 0

\* C24: within one pyramid job with N target levels the derivation steps run
\* in the order k = 0..N-2, N-1 of them per class (or for raw); step k reads
\* only level s{k} and writes only level s{k+1} (array, per-level attributes,
\* one appended record); step k+1 starts only after s{k+1} has its array and
\* its record; with N <= 1 nothing is written.
C24_StepsInOrder == []C24_Position /\ [][C24_Step]_vars

\* C24 witness: a label job with three target levels has finished: its last
\* step derived s2 of the last class from s1.
C24_Witness ==
    /\ job.kind = "labels"
    /\ job.status = "done"
    /\ job.num_scales = 3
    /\ runs = 1
    /\ job.last = <<"er", "s1", "s2">>
    /\ arrays["er"]["s2"] # NoArray
    /\ arrays["mito"]["s2"] # NoArray

\* C25: for an encoding check_encoding accepts and an s0 array of present,
\* absent and unknown codes, every voxel of every derived label level is
\* exactly unknown or not greater than max(present, absent), and a voxel
\* differs from unknown exactly when its source block holds no unknown voxel:
\* a block without unknown is never reset, a block with one is.
C25_NotUnknownIffKnownBlock ==
    \A g \in Classes : \A k \in 0..(MaxScales - 2) :
        (Derived(g, k) /\ check_encoding(lvlattrs[g][Lvl(k)].encoding) = "ok") =>
            LET down == arrays[g][Lvl(k + 1)]
                enc == lvlattrs[g][Lvl(k)].encoding
            IN  \A c \in DOMAIN down.data :
                    /\ \/ down.data[c] = enc.unknown * down.den
                       \/ down.data[c] <= Max(enc.present, enc.absent) * down.den
                    /\ down.data[c] # enc.unknown * down.den
                          <=> UnknownInBlock(g, k, c) = {}

\* 2^k
Pow2(k) == <<1, 2, 4, 8, 16>>[k + 1]

\* The groups a pyramid job of the given kind works on.
JobGroups(kind) == IF kind = "raw" THEN {"raw"} ELSE Classes

\* C26: after a pyramid job with N target levels has completed on groups whose
\* metadata held only s0 with scale S and translation T, each of these
\* documents holds exactly the levels s0..s{N-1} in that order, level s{k}
\* with scale 2^k * S and translation T + S * (2^k - 1) / 2 per axis
\* (translations in half nanometres: T + S * (2^k - 1)).  A job appends
\* records only, so on its first run a document that is not empty is one that
\* held s0.
C26_CompletedPyramidMetadata ==
    (job.kind \in {"labels", "raw"} /\ job.status = "done" /\ runs = 1) =>
        \A g \in {h \in JobGroups(job.kind) : grpattrs[h].datasets # << >>} :
            LET ds == grpattrs[g].datasets
                S == ds[1].coordinateTransformations[1].scale
                T == ds[1].coordinateTransformations[2].translation
            IN  /\ Len(ds) = job.num_scales
                /\ \E t0 \in S0Transforms :
                      ds[1] = LevelRecord("s0", t0.scale, t0.translation)
                /\ \A k \in 0..(job.num_scales - 1) :
                      /\ ds[k + 1].path = Lvl(k)
                      /\ \A i \in 1..3 :
                            /\ ds[k + 1].coordinateTransformations[1].scale[i]
                                  = Pow2(k) * S[i]
                            /\ ds[k + 1].coordinateTransformations[2].translation[i]
                                  = T[i] + S[i] * (Pow2(k) - 1)

\* C26 witness: a first raw job with three target levels has completed on a
\* group whose s0 has scale (1,2,2) nm and translation (0,0.5,0.5) nm: s2 has
\* scale (4,8,8) nm and translation (1.5,3.5,3.5) nm.
C26_Witness ==
    /\ job.kind = "raw"
    /\ job.status = "done"
    /\ runs = 1
    /\ job.num_scales = 3
    /\ Len(grpattrs["raw"].datasets) = 3
    /\ grpattrs["raw"].datasets[1] = LevelRecord("s0", <<1, 2, 2>>, <<0, 1, 1>>)
    /\ grpattrs["raw"].datasets[3] = LevelRecord("s2", <<4, 8, 8>>, <<3, 7, 7>>)

\* ceil(n / 2)
CeilHalf(n) == (n + 1) \div 2

\* C27: in each derivation step, for a source axis of length n the block-mean
\* output has length ceil(n/2) and the stored level has length
\* 2 * floor(ceil(n/2) / 2) on that axis: even, at most ceil(n/2), and 0
\* whenever n <= 2.
C27_StoredAxisLength ==
    job.last # NoStep =>
        LET src == arrays[job.last[1]][job.last[2]]
            dst == arrays[job.last[1]][job.last[3]]
        IN  \A i \in 1..3 :
                LET n == src.shape[i]
                IN  /\ downscale_local_mean(src).shape[i] = CeilHalf(n)
                    /\ dst.shape[i] = 2 * (CeilHalf(n) \div 2)
                    /\ dst.shape[i] % 2 = 0
                    /\ dst.shape[i] <= CeilHalf(n)
                    /\ n <= 2 => dst.shape[i] = 0
                    /\ DOMAIN dst.data = Coords(dst.shape)

\* C27 witness: a step has derived a level from a source with an axis of
\* length 7 and one of length 6 (block means 4 and 3, stored 4 and 2), and a
\* later step has derived an empty level from a source with an axis of 2.
C27_Witness ==
    /\ job.last # NoStep
    /\ job.last[2] = "s1"
    /\ arrays[job.last[1]]["s0"].shape = <<6, 7, 7>>
    /\ arrays[job.last[1]]["s1"].shape = <<2, 4, 4>>
    /\ arrays[job.last[1]]["s2"].shape = <<0, 2, 2>>

\* C28: at every point of the pyramid jobs run on a crop, the state left by
\* a step that raised included, every record appended to a group's document
\* (every record but s0's) names a level whose array and, for a class, whose
\* per-level attributes are in the store: a failure may leave an array
\* without a record, never a record without an array.
C28_NoRecordWithoutArray ==
    \A g \in Groups : \A n \in DOMAIN grpattrs[g].datasets :
        LET path == grpattrs[g].datasets[n].path
        IN  path # "s0" =>
                /\ arrays[g][path] # NoArray
                /\ g \in Classes => lvlattrs[g][path] # NoAttrs

\* C28 witness: a label job derived and recorded s1 of the first class, then
\* raised in the second class after writing its s1: that array has no record.
C28_Witness ==
    /\ job.kind = "labels"
    /\ job.status = "raised"
    /\ job.li = 2
    /\ Len(grpattrs["mito"].datasets) = 2
    /\ arrays["mito"]["s1"] # NoArray
    /\ arrays["er"]["s1"] # NoArray
    /\ lvlattrs["er"]["s1"] # NoAttrs
    /\ grpattrs["er"].datasets = << >>

\* C29: the scale resolver and the transform resolver agree: for every
\* metadata document (duplicate level paths and several scale transforms in
\* one level included) and every requested scale s, if get_scalelevel returns
\* the name n for s and get_scale_and_translation(doc, n) succeeds, the scale
\* it returns is s.
C29_ResolversAgree ==
    (lastcall.op = "get_scalelevel" /\ lastcall.result.status = "ok") =>
        LET r == get_scale_and_translation(attrs_as_dict, lastcall.result.path)
        IN  r.status = "ok" => r.scale = lastcall.request_scale

\* The loop of _add_raw went on after every crop it skipped: it is past the
\* crop, and once it has returned every crop listed after a skipped one has
\* been skipped or given its raw data.
AddRawLoopGoesOn ==
    araw.pc # "idle" =>
        \A i \in araw.skipped :
            /\ araw.i > i
            /\ araw.pc = "returned" =>
                  \A j \in (i + 1)..Len(crop_store) :
                      j \in araw.skipped \cup araw.added

\* C30: in add-raw a crop whose raw region cannot be extracted from the
\* dataset's raw volume is skipped without effect: its raw group (arrays and
\* metadata) is exactly as before the run, and the crops listed after it are
\* still processed.
C30_SkippedCropUntouched ==
    araw.pc # "idle" =>
        /\ \A i \in araw.skipped : crop_store[i].raw = araw.before[i].raw
        /\ AddRawLoopGoesOn

====
